---- MODULE Spec2Model ----
(***************************************************************************)
(* Model of the API gateway's enforcement core: the fixed-window rate      *)
(* limiter (RateLimitService), the refresh-token lifecycle (AuthService),  *)
(* API-key verification (ClientService) and the authentication dispatcher  *)
(* (authMiddleware).  Each component has its own specification over the    *)
(* shared variables; a specification leaves the other components' state    *)
(* unchanged.                                                              *)
(***************************************************************************)
EXTENDS Integers, Sequences, FiniteSets, TLC

VARIABLES
    now,          \* wall clock, whole seconds since local midnight of day 0
    redisStore,   \* counter store: key -> [count, exp]
    storeUp,      \* whether the counter store answers commands
    rl,           \* per caller: the checkRateLimit call in progress
    issued,       \* history: per client, calls counted in the current windows
    everDown,     \* history: the counter store has been unavailable
    calls,        \* number of checkRateLimit calls started
    refreshTokens,\* the RefreshToken table: records, unique by token
    tokRes,       \* the AuthService operation just completed and its result
    revokedDone,  \* history: tokens whose revocation completed on a record
    apiClients,   \* the ApiClient table
    issuedKeys,   \* history: the key returned by each createClient
    keyRes,       \* the ClientService operation just completed and its result
    failSeen,     \* history: failures of authenticateApiKey, by case
    req,          \* the request in authenticateOptional and what became of it
    subscriptions,\* the Subscription table: rows, unique by userId
    planCache,    \* per user: the plan:limits:{userId} cache entry
    plan,         \* per caller: the getPlanLimitsForUser call in progress
    heldUntil,    \* history: per user and limits, when the row last stood for them
    usageRes,     \* the getCurrentUsage call just completed and its result
    gate,         \* the request at a protected route and how far it has come
    charged,      \* history: per rate-limit key, the checkRateLimit calls made
    guard,        \* per caller: the request in authRateLimitMiddleware
    guardHist,    \* history: per IP, the window open and the requests in it
    users,        \* the User table: rows, unique by id and by email
    reg           \* per caller: the AuthService.register call in progress

rateVars == <<redisStore, storeUp, rl, issued, everDown, calls>>
tokenVars == <<refreshTokens, tokRes, revokedDone>>
keyVars == <<apiClients, issuedKeys, keyRes, failSeen>>
authVars == <<req>>
planVars == <<subscriptions, planCache, plan, heldUntil>>
usageVars == <<usageRes>>
gateVars == <<gate, charged>>
guardVars == <<guard, guardHist>>
registerVars == <<users, reg>>
nonRateVars == <<tokenVars, keyVars, authVars, planVars, usageVars, registerVars, guardVars, gateVars>>
nonTokenVars == <<rateVars, keyVars, authVars, planVars, usageVars, registerVars, guardVars, gateVars>>
nonKeyVars == <<now, rateVars, tokenVars, authVars, planVars, usageVars, registerVars, guardVars, gateVars>>
nonPlanVars == <<now, rateVars, tokenVars, keyVars, authVars, usageVars, registerVars, guardVars, gateVars>>
vars == <<now, rateVars, tokenVars, keyVars, authVars, planVars, usageVars, registerVars, guardVars, gateVars>>

(***************************************************************************)
(* Bounds of the model.                                                    *)
(***************************************************************************)
MaxDay == 1
MaxCalls == 3
MaxLimit == 2
MaxTime == 3
RefreshLifetime == 1
MaxSaved == 1
MaxClients == 3
MaxCycles == 1
MaxSkew == 2
MaxRequests == 12
MaxAttempts == 7
MaxBatches == 3

(***************************************************************************)
(* Program constants.                                                      *)
(***************************************************************************)
SecondsPerMinute == 60
MinuteBuffer == 1
DayBuffer == 3600
HoursPerDay == 24
MinutesPerHour == 60
FreeRequestsPerMinute == 10
FreeRequestsPerDay == 1000
ProRequestsPerMinute == 100
ProRequestsPerDay == 100000
CacheTtl == 60
AuthLimit == 5
AuthWindow == 60

SecondsPerHour == MinutesPerHour * SecondsPerMinute
SecondsPerDay == HoursPerDay * SecondsPerHour

\* JavaScript's undefined, as read from a failed command's result entry.
Undefined == 0 - 1
\* A key on which no EXPIRE has been set.
NoExpiry == 0 - 1

\* The callers of checkRateLimit (requests in flight).
Procs == {"p1", "p2"}
ClientIds == {"c1", "u1"}
MinuteLimits == 1..MaxLimit
DayLimits == MaxLimit..(MaxLimit + 1)

(***************************************************************************)
(* The instants at which the model lets something happen, as <<minute of   *)
(* the day, second>>: two in the first minute and one in the second minute *)
(* of each day.                                                            *)
(***************************************************************************)
InstantsOfDay == {<<0, 5>>, <<0, 59>>, <<1, 2>>}
Instants ==
    { d * SecondsPerDay + i[1] * SecondsPerMinute + i[2] :
        d \in 0..MaxDay, i \in InstantsOfDay }

(***************************************************************************)
(* Date accessors (local time, no DST change inside the modelled days).    *)
(***************************************************************************)
getDate(t) == t \div SecondsPerDay
getHours(t) == (t % SecondsPerDay) \div SecondsPerHour
getMinutes(t) == (t % SecondsPerHour) \div SecondsPerMinute
getSeconds(t) == t % SecondsPerMinute

\* The minute window without its minute digits.
getMinuteWindowHourly(t) == <<getDate(t), getHours(t), 0>>

\* YYYYMMDDHHmm: the day ordinal stands for the year-month-day digits.
getMinuteWindow(t) == <<getDate(t), getHours(t), getMinutes(t)>>

\* YYYYMMDD
getDayWindow(t) == <<getDate(t)>>

getSecondsUntilNextDay(t) == (getDate(t) + 1) * SecondsPerDay - t

\* `rate:${clientId}:${window}`
RateKey(clientId, window) == <<clientId, window>>

\* The minute TTL counted from the seconds elapsed in the minute.
MinuteTtlElapsed(t) == getSeconds(t) + MinuteBuffer

MinuteTtl(t) == (SecondsPerMinute - getSeconds(t)) + MinuteBuffer
DayTtl(t) == getSecondsUntilNextDay(t) + DayBuffer

(***************************************************************************)
(* The counter store (Redis): INCR, EXPIRE and its own expiry of keys.     *)
(***************************************************************************)
\* INCR that creates a missing key and leaves an existing one as it is.
IncrOnce(store, k) ==
    IF k \in DOMAIN store
      THEN store
      ELSE store @@ (k :> [count |-> 1, exp |-> NoExpiry])

Incr(store, k) ==
    IF k \in DOMAIN store
      THEN [store EXCEPT ![k].count = @ + 1]
      ELSE store @@ (k :> [count |-> 1, exp |-> NoExpiry])

Expire(store, k, ttl, t) ==
    IF k \in DOMAIN store
      THEN [store EXCEPT ![k].exp = t + ttl]
      ELSE store

Restrict(f, S) == [k \in S |-> f[k]]

Evict(store, t) ==
    Restrict(store, {k \in DOMAIN store :
                        store[k].exp = NoExpiry \/ store[k].exp > t})

(***************************************************************************)
(* checkRateLimit                                                          *)
(***************************************************************************)
\* rankMinute, rankDay, failedAt, deniedIn, afterDenial and applied are
\* history fields: the call's ordinal among the client's calls of its minute
\* and of its day, the step at which the store failed it, whether the
\* client's previous call was denied for the minute limit in an earlier
\* minute, and which of the call's INCR commands the store has executed.
NoCall == [clientId |-> "c1", minute |-> 0 - 1]
Idle == [pc |-> "idle", clientId |-> "c1", rpm |-> 1, rpd |-> 1, at |-> 0,
         minuteCount |-> Undefined, dayCount |-> Undefined,
         rankMinute |-> 0, rankDay |-> 0, failedAt |-> "none",
         deniedIn |-> NoCall, afterDenial |-> FALSE,
         applied |-> {},
         outcome |-> "none", thrown |-> "none"]

\* `minuteCount > requestsPerMinute` with JavaScript's comparison:
\* undefined > n is false.
JsGreater(x, n) == x # Undefined /\ x > n

\* The limit checks with >= for >.
CheckLimitsOffByOne(minuteCount, dayCount, rpm, rpd) ==
    IF minuteCount # Undefined /\ minuteCount >= rpm
      THEN [outcome |-> "RATE_LIMIT_MINUTE", thrown |-> "TooManyRequestsError"]
    ELSE IF dayCount # Undefined /\ dayCount >= rpd
      THEN [outcome |-> "RATE_LIMIT_DAY", thrown |-> "TooManyRequestsError"]
    ELSE [outcome |-> "Allowed", thrown |-> "none"]

\* The limit checks with the day limit checked first.
CheckLimitsDayFirst(minuteCount, dayCount, rpm, rpd) ==
    IF JsGreater(dayCount, rpd)
      THEN [outcome |-> "RATE_LIMIT_DAY", thrown |-> "TooManyRequestsError"]
    ELSE IF JsGreater(minuteCount, rpm)
      THEN [outcome |-> "RATE_LIMIT_MINUTE", thrown |-> "TooManyRequestsError"]
    ELSE [outcome |-> "Allowed", thrown |-> "none"]

\* The limit checks without the day limit.
CheckLimitsMinuteOnly(minuteCount, dayCount, rpm, rpd) ==
    IF JsGreater(minuteCount, rpm)
      THEN [outcome |-> "RATE_LIMIT_MINUTE", thrown |-> "TooManyRequestsError"]
    ELSE [outcome |-> "Allowed", thrown |-> "none"]

\* Lines 82-123: the limit checks, minute first.
CheckLimits(minuteCount, dayCount, rpm, rpd) ==
    IF JsGreater(minuteCount, rpm)
      THEN [outcome |-> "RATE_LIMIT_MINUTE", thrown |-> "TooManyRequestsError"]
    ELSE IF JsGreater(dayCount, rpd)
      THEN [outcome |-> "RATE_LIMIT_DAY", thrown |-> "TooManyRequestsError"]
    ELSE [outcome |-> "Allowed", thrown |-> "none"]

\* Lines 124-143: the catch block; err is the type of the error caught.
Catch(err, code) ==
    IF err = "TooManyRequestsError"
      THEN [outcome |-> code, thrown |-> err]
      ELSE [outcome |-> "Allowed", thrown |-> "none"]

\* The clock's own numbering of the windows, used by the history only.
MinuteIndex(t) == t \div SecondsPerMinute
DayIndex(t) == t \div SecondsPerDay

\* The call has returned or thrown r: what its caller sees, with the call's
\* limits and counts kept for the record.
Done(call, r) ==
    [call EXCEPT !.pc = "done", !.outcome = r.outcome, !.thrown = r.thrown,
                 !.at = Idle.at, !.clientId = Idle.clientId,
                 !.deniedIn = IF r.outcome = "RATE_LIMIT_MINUTE"
                                THEN [clientId |-> call.clientId,
                                      minute |-> MinuteIndex(call.at)]
                                ELSE NoCall]


\* The increments of a call that spends daily quota only when its minute
\* count is within the limit.
IncrementOkWithinMinute(p, c, rpm, rpd) ==
    /\ rl[p].pc \in {"idle", "done"}
    /\ calls < MaxCalls
    /\ storeUp
    /\ LET mk == RateKey(c, getMinuteWindow(now))
           dk == RateKey(c, getDayWindow(now))
           m1 == Incr(redisStore, mk)
           s1 == IF m1[mk].count > rpm /\ dk \in DOMAIN m1
                   THEN m1 ELSE Incr(m1, dk)
       IN /\ redisStore' = s1
          /\ issued' = [issued EXCEPT ![c].m = @ + 1, ![c].d = @ + 1]
          /\ rl' = [rl EXCEPT ![p] =
                      [Idle EXCEPT !.pc = "incremented", !.clientId = c,
                                   !.rpm = rpm, !.rpd = rpd, !.at = now,
                                   !.minuteCount = s1[mk].count,
                                   !.dayCount = s1[dk].count,
                                   !.rankMinute = issued[c].m + 1,
                                   !.rankDay = issued[c].d + 1,
                                   !.applied = {"minute", "day"},
                                   !.afterDenial =
                                       /\ rl[p].deniedIn.clientId = c
                                       /\ rl[p].deniedIn.minute >= 0
                                       /\ rl[p].deniedIn.minute < MinuteIndex(now)]]
    /\ calls' = calls + 1
    /\ UNCHANGED <<now, storeUp, everDown>>
    /\ UNCHANGED nonRateVars

\* Lines 34-61 with the store answering: both INCRs are applied and read.
IncrementOk(p, c, rpm, rpd) ==
    /\ rl[p].pc \in {"idle", "done"}
    /\ calls < MaxCalls
    /\ storeUp
    /\ LET mk == RateKey(c, getMinuteWindow(now))
           dk == RateKey(c, getDayWindow(now))
           s1 == Incr(Incr(redisStore, mk), dk)
       IN /\ redisStore' = s1
          /\ issued' = [issued EXCEPT ![c].m = @ + 1, ![c].d = @ + 1]
          /\ rl' = [rl EXCEPT ![p] =
                      [Idle EXCEPT !.pc = "incremented", !.clientId = c,
                                   !.rpm = rpm, !.rpd = rpd, !.at = now,
                                   !.minuteCount = s1[mk].count,
                                   !.dayCount = s1[dk].count,
                                   !.rankMinute = issued[c].m + 1,
                                   !.rankDay = issued[c].d + 1,
                                   !.applied = {"minute", "day"},
                                   !.afterDenial =
                                       /\ rl[p].deniedIn.clientId = c
                                       /\ rl[p].deniedIn.minute >= 0
                                       /\ rl[p].deniedIn.minute < MinuteIndex(now)]]
    /\ calls' = calls + 1
    /\ UNCHANGED <<now, storeUp, everDown>>
    /\ UNCHANGED nonRateVars

\* Lines 45-54 command by command.  pipeline() batches the two INCRs into one
\* round trip without MULTI: the store executes them one after the other and
\* serves other connections in between.  This step is the first INCR.
IncrementMinute(p, c, rpm, rpd) ==
    /\ rl[p].pc \in {"idle", "done"}
    /\ calls < MaxBatches
    /\ storeUp
    /\ LET mk == RateKey(c, getMinuteWindow(now))
           s1 == Incr(redisStore, mk)
       IN /\ redisStore' = s1
          /\ issued' = [issued EXCEPT ![c].m = @ + 1]
          /\ rl' = [rl EXCEPT ![p] =
                      [Idle EXCEPT !.pc = "minuteApplied", !.clientId = c,
                                   !.rpm = rpm, !.rpd = rpd, !.at = now,
                                   !.minuteCount = s1[mk].count,
                                   !.rankMinute = issued[c].m + 1,
                                   !.applied = {"minute"},
                                   !.afterDenial =
                                       /\ rl[p].deniedIn.clientId = c
                                       /\ rl[p].deniedIn.minute >= 0
                                       /\ rl[p].deniedIn.minute < MinuteIndex(now)]]
    /\ calls' = calls + 1
    /\ UNCHANGED <<now, storeUp, everDown>>
    /\ UNCHANGED nonRateVars

\* The second INCR of the batch, then lines 54-61.
IncrementDay(p) ==
    /\ rl[p].pc = "minuteApplied"
    /\ storeUp
    /\ LET c == rl[p].clientId
           dk == RateKey(c, getDayWindow(rl[p].at))
           s1 == Incr(redisStore, dk)
       IN /\ redisStore' = s1
          /\ issued' = [issued EXCEPT ![c].d = @ + 1]
          /\ rl' = [rl EXCEPT ![p].pc = "incremented",
                              ![p].dayCount = s1[dk].count,
                              ![p].rankDay = issued[c].d + 1,
                              ![p].applied = {"minute", "day"}]
    /\ UNCHANGED <<now, storeUp, everDown, calls>>
    /\ UNCHANGED nonRateVars

\* The store is lost after the first INCR: the second is never executed.
\* exec() rejects, or resolves with an [err] entry for the second command.
IncrementDayFails(p, mode) ==
    /\ rl[p].pc = "minuteApplied"
    /\ ~storeUp
    /\ LET call == [rl[p] EXCEPT !.failedAt = "increment"]
           r == Catch("Error", "none")
       IN rl' = [rl EXCEPT ![p] =
                   IF mode = "rejects"
                     THEN Done(call, r)
                     ELSE [call EXCEPT !.pc = "incremented"]]
    /\ UNCHANGED <<now, redisStore, storeUp, issued, everDown, calls>>
    /\ UNCHANGED nonRateVars

\* Lines 54-61 with the store unavailable.  The client library reports a failed
\* pipeline either by rejecting exec() or by resolving it with an [err] entry
\* per command, whose [1] reads undefined; the source handles both.
ExecFailureModes == {"rejects", "resolves"}

IncrementFails(p, c, rpm, rpd, mode) ==
    /\ rl[p].pc \in {"idle", "done"}
    /\ calls < MaxCalls
    /\ ~storeUp
    /\ LET call == [Idle EXCEPT !.clientId = c, !.rpm = rpm, !.rpd = rpd,
                                !.at = now, !.failedAt = "increment"]
           r == Catch("Error", "none")
       IN rl' = [rl EXCEPT ![p] =
                   IF mode = "rejects"
                     THEN Done(call, r)
                     ELSE [call EXCEPT !.pc = "incremented"]]
    /\ calls' = calls + 1
    /\ UNCHANGED <<now, redisStore, storeUp, issued, everDown>>
    /\ UNCHANGED nonRateVars

\* The EXPIRE commands of a call that queues them whatever count it read.
ExpirationCommandsAlways(call) ==
    LET mk == RateKey(call.clientId, getMinuteWindow(call.at))
        dk == RateKey(call.clientId, getDayWindow(call.at))
    IN  {<<mk, MinuteTtl(call.at)>>, <<dk, DayTtl(call.at)>>}

\* Lines 65-77: the EXPIRE commands queued by the call, as <<key, ttl>> pairs.
ExpirationCommands(call) ==
    LET mk == RateKey(call.clientId, getMinuteWindow(call.at))
        dk == RateKey(call.clientId, getDayWindow(call.at))
    IN  (IF call.minuteCount = 1 THEN {<<mk, MinuteTtl(call.at)>>} ELSE {})
        \cup
        (IF call.dayCount = 1 THEN {<<dk, DayTtl(call.at)>>} ELSE {})

RECURSIVE ApplyExpires(_, _, _)
ApplyExpires(store, cmds, t) ==
    IF cmds = {} THEN store
    ELSE LET c == CHOOSE x \in cmds : TRUE
         IN ApplyExpires(Expire(store, c[1], c[2], t), cmds \ {c}, t)

\* Lines 79-123: the expiration pipeline runs, then the limits are checked.
\* An empty pipeline resolves without reaching the store.
ExpireAndCheck(p) ==
    /\ rl[p].pc = "incremented"
    /\ storeUp \/ ExpirationCommands(rl[p]) = {}
    /\ LET call == rl[p]
           r == CheckLimits(call.minuteCount, call.dayCount, call.rpm, call.rpd)
       IN /\ redisStore' = ApplyExpires(redisStore, ExpirationCommands(call), now)
          /\ rl' = [rl EXCEPT ![p] = Done(call, r)]
    /\ UNCHANGED <<now, storeUp, issued, everDown, calls>>
    /\ UNCHANGED nonRateVars

\* Line 79 with the store unavailable: no EXPIRE is applied.
ExpireFails(p, mode) ==
    /\ rl[p].pc = "incremented"
    /\ ~storeUp
    /\ ExpirationCommands(rl[p]) # {}
    /\ LET call == [rl[p] EXCEPT !.failedAt = "expiration"]
           r == IF mode = "rejects"
                  THEN Catch("Error", "none")
                  ELSE CheckLimits(call.minuteCount, call.dayCount,
                                   call.rpm, call.rpd)
       IN rl' = [rl EXCEPT ![p] = Done(call, r)]
    /\ UNCHANGED <<now, redisStore, storeUp, issued, everDown, calls>>
    /\ UNCHANGED nonRateVars

\* Time passes to the next instant; the store drops the keys whose expiration has been reached.
Tick ==
    /\ \E t \in Instants :
          /\ t > now
          /\ \A u \in Instants : ~(now < u /\ u < t)
          /\ now' = t
          /\ redisStore' = Evict(redisStore, t)
          /\ issued' = [c \in ClientIds |->
                          [m |-> IF MinuteIndex(t) = MinuteIndex(now)
                                   THEN issued[c].m ELSE 0,
                           d |-> IF DayIndex(t) = DayIndex(now)
                                   THEN issued[c].d ELSE 0]]
    /\ UNCHANGED <<storeUp, rl, everDown, calls>>
    /\ UNCHANGED nonRateVars

StoreFails ==
    /\ storeUp
    /\ storeUp' = FALSE
    /\ everDown' = TRUE
    /\ UNCHANGED <<now, redisStore, rl, issued, calls>>
    /\ UNCHANGED nonRateVars

StoreRecovers ==
    /\ ~storeUp
    /\ storeUp' = TRUE
    /\ UNCHANGED <<now, redisStore, rl, issued, everDown, calls>>
    /\ UNCHANGED nonRateVars

(***************************************************************************)
(* Refresh tokens: AuthService over AuthRepository.  In the specifications *)
(* of this part the clock counts abstract time units.                      *)
(***************************************************************************)
Users == {"u1", "u2"}

\* A token string.  jwt.sign gives a string determined by the user and the
\* second of issue; sha counts how many times the string has been put
\* through SHA-256, so that a digest differs from the string digested and
\* digests of different strings differ.
Jwt(u, t) == [sub |-> u, iat |-> t, sha |-> 0]

\* crypto.createHash('sha256').update(token).digest('hex')
Sha256(x) == [x EXCEPT !.sha = @ + 1]

\* What a caller may present: any token string, issued or not, or a digest.
PresentedTokens ==
    { [sub |-> u, iat |-> t, sha |-> h] : u \in Users, t \in 0..MaxTime, h \in {0, 1} }

\* Records written before tokens were stored hashed: the plaintext token of a
\* sign-in that precedes the modelled run.
LegacyRecords ==
    { [token |-> Jwt(u, 0), userId |-> u, expiresAt |-> x, revoked |-> b] :
        u \in Users, x \in {1, MaxTime}, b \in BOOLEAN }

\* prisma.refreshToken.findUnique({ where: { token } }): no record or one.
findRefreshTokenByToken(token) == {r \in refreshTokens : r.token = token}

UnauthorizedError(code) ==
    [ok |-> FALSE, error |-> "UnauthorizedError", code |-> code, userId |-> "none"]

\* The checks of validateRefreshToken without the revoked check.
ValidateChecksNoRevoked(found, t) ==
    IF found = {} THEN UnauthorizedError("INVALID_REFRESH_TOKEN")
    ELSE LET r == CHOOSE x \in found : TRUE
         IN IF r.expiresAt < t THEN UnauthorizedError("EXPIRED_REFRESH_TOKEN")
            ELSE [ok |-> TRUE, error |-> "none", code |-> "none",
                  userId |-> r.userId]

\* The checks of validateRefreshToken with expiry checked before revocation.
ValidateChecksExpiryFirst(found, t) ==
    IF found = {} THEN UnauthorizedError("INVALID_REFRESH_TOKEN")
    ELSE LET r == CHOOSE x \in found : TRUE
         IN IF r.expiresAt < t THEN UnauthorizedError("EXPIRED_REFRESH_TOKEN")
            ELSE IF r.revoked THEN UnauthorizedError("REVOKED_REFRESH_TOKEN")
            ELSE [ok |-> TRUE, error |-> "none", code |-> "none",
                  userId |-> r.userId]

\* Lines 162-180: found is the lookup's result, t the time of validation.
ValidateChecks(found, t) ==
    IF found = {} THEN UnauthorizedError("INVALID_REFRESH_TOKEN")
    ELSE LET r == CHOOSE x \in found : TRUE
         IN IF r.revoked THEN UnauthorizedError("REVOKED_REFRESH_TOKEN")
            ELSE IF r.expiresAt < t THEN UnauthorizedError("EXPIRED_REFRESH_TOKEN")
            ELSE [ok |-> TRUE, error |-> "none", code |-> "none",
                  userId |-> r.userId]

\* The lookup by hash alone, without the legacy fallback.
ValidateLookupHashOnly(token) == findRefreshTokenByToken(Sha256(token))

\* Lines 153-160: by hash first, then by the plain token.
ValidateLookup(token) ==
    LET byHash == findRefreshTokenByToken(Sha256(token))
    IN IF byHash # {} THEN byHash ELSE findRefreshTokenByToken(token)

OpResult(op, token, r) ==
    [op |-> op, token |-> token, ok |-> r.ok, error |-> r.error,
     code |-> r.code, userId |-> r.userId]

NoOp == OpResult("none", Jwt("u1", 0),
                 [ok |-> TRUE, error |-> "none", code |-> "none", userId |-> "none"])

validateRefreshToken(token) ==
    /\ tokRes = NoOp
    /\ tokRes' = OpResult("validate", token,
                          ValidateChecks(ValidateLookup(token), now))
    /\ UNCHANGED <<now, refreshTokens, revokedDone>>
    /\ UNCHANGED nonTokenVars

\* POST /auth/login or /auth/register for user u: a refresh token is signed
\* and saveRefreshToken stores its hash; the table's unique index on token
\* rejects a second record for the same string.
saveRefreshToken(u) ==
    LET token == Jwt(u, now)
        rec == [token |-> Sha256(token), userId |-> u,
                expiresAt |-> now + RefreshLifetime, revoked |-> FALSE]
    IN /\ tokRes = NoOp
       /\ IF findRefreshTokenByToken(rec.token) = {}
         THEN /\ Cardinality({r \in refreshTokens : r.token.sha = 1}) < MaxSaved
              /\ refreshTokens' = refreshTokens \cup {rec}
              /\ tokRes' = OpResult("save", token,
                     [ok |-> TRUE, error |-> "none", code |-> "none", userId |-> u])
              /\ UNCHANGED <<now, revokedDone>>
              /\ UNCHANGED nonTokenVars
         ELSE /\ tokRes' = OpResult("save", token,
                     [ok |-> FALSE, error |-> "PrismaClientKnownRequestError",
                      code |-> "P2002", userId |-> "none"])
              /\ UNCHANGED <<now, refreshTokens, revokedDone>>
              /\ UNCHANGED nonTokenVars

\* Lines 207-222: the stored string that revocation addresses.
RevokeTarget(token) ==
    IF findRefreshTokenByToken(Sha256(token)) # {} THEN Sha256(token) ELSE token

\* The revocation carried out as revokeAllUserTokens for the owner of the
\* matched record.
revokeRefreshTokenOfUser(token) ==
    LET target == RevokeTarget(token)
        owners == {r.userId : r \in findRefreshTokenByToken(target)}
    IN /\ tokRes = NoOp
       /\ IF findRefreshTokenByToken(target) # {}
         THEN /\ refreshTokens' =
                    { IF r.userId \in owners THEN [r EXCEPT !.revoked = TRUE] ELSE r :
                        r \in refreshTokens }
              /\ revokedDone' = revokedDone \cup {token}
              /\ tokRes' = OpResult("revoke", token,
                     [ok |-> TRUE, error |-> "none", code |-> "none",
                      userId |-> "none"])
              /\ UNCHANGED now
              /\ UNCHANGED nonTokenVars
         ELSE /\ tokRes' = OpResult("revoke", token,
                     [ok |-> FALSE, error |-> "PrismaClientKnownRequestError",
                      code |-> "P2025", userId |-> "none"])
              /\ UNCHANGED <<now, refreshTokens, revokedDone>>
              /\ UNCHANGED nonTokenVars

\* AuthRepository.revokeRefreshToken: prisma update of the record with that
\* token, which throws when there is none.
revokeRefreshToken(token) ==
    LET target == RevokeTarget(token)
    IN /\ tokRes = NoOp
       /\ IF findRefreshTokenByToken(target) # {}
         THEN /\ refreshTokens' =
                    { IF r.token = target THEN [r EXCEPT !.revoked = TRUE] ELSE r :
                        r \in refreshTokens }
              /\ revokedDone' = revokedDone \cup {token}
              /\ tokRes' = OpResult("revoke", token,
                     [ok |-> TRUE, error |-> "none", code |-> "none",
                      userId |-> "none"])
              /\ UNCHANGED now
              /\ UNCHANGED nonTokenVars
         ELSE /\ tokRes' = OpResult("revoke", token,
                     [ok |-> FALSE, error |-> "PrismaClientKnownRequestError",
                      code |-> "P2025", userId |-> "none"])
              /\ UNCHANGED <<now, refreshTokens, revokedDone>>
              /\ UNCHANGED nonTokenVars

\* AuthRepository.deleteExpiredTokens, the periodic sweep.
deleteExpiredTokens ==
    /\ tokRes = NoOp
    /\ refreshTokens' = {r \in refreshTokens : ~(r.expiresAt < now)}
    /\ UNCHANGED <<now, tokRes, revokedDone>>
    /\ UNCHANGED nonTokenVars

TickToken ==
    /\ tokRes = NoOp
    /\ now < MaxTime
    /\ now' = now + 1
    /\ UNCHANGED <<tokRes, refreshTokens, revokedDone>>
    /\ UNCHANGED nonTokenVars

\* The caller has taken the operation's result or error.
Respond ==
    /\ tokRes # NoOp
    /\ tokRes' = NoOp
    /\ UNCHANGED <<now, refreshTokens, revokedDone>>
    /\ UNCHANGED nonTokenVars

(***************************************************************************)
(* API keys: ClientService and ClientRepository.                           *)
(***************************************************************************)
\* An API key string, by the parts the code takes of it: characters 0..7
\* (literal), 8..15 (head), 16..71 (tail) and whatever follows the 72nd
\* character (extra).
Key(literal, head, tail, extra) ==
    [literal |-> literal, head |-> head, tail |-> tail, extra |-> extra]

ApiKeyLiteral == "ak_live_"
Heads == {"0a", "0b"}
Tails == {"c", "d"}

\* An absent or empty X-API-Key header.
EmptyKey == Key("", "", "", "")

\* What a caller may present: the well-formed keys, the same followed by
\* further characters, a key with another literal prefix, and no key.
PresentedKeys ==
    { Key(ApiKeyLiteral, h, t, e) : h \in Heads, t \in Tails, e \in {"", "e"} }
        \cup { Key("ak_test_", "0a", "c", ""), EmptyKey }

\* apiKey.startsWith('ak_live_')
startsWith(apiKey, literal) == apiKey.literal = literal

\* fullKey.substring(0, 16)
LookupPrefix(apiKey) == [literal |-> apiKey.literal, head |-> apiKey.head]

\* bcrypt takes the first 72 bytes of its input.
BcryptInput(apiKey) == [apiKey EXCEPT !.extra = ""]

\* bcrypt.hash(apiKey, SALT_ROUNDS) under a fresh salt.
hashApiKey(apiKey, salt) == [salt |-> salt, digest |-> BcryptInput(apiKey)]

\* A comparison that looks at the lookup prefix only.
verifyApiKeyByPrefix(apiKey, apiKeyHash) ==
    LookupPrefix(apiKey) = LookupPrefix(apiKeyHash.digest)

\* bcrypt.compare(apiKey, apiKeyHash)
verifyApiKey(apiKey, apiKeyHash) == BcryptInput(apiKey) = apiKeyHash.digest

\* prisma.apiClient.findMany({ where: { apiKeyPrefix } })
findClientByApiKeyPrefix(apiKeyPrefix) ==
    {c \in apiClients : c.apiKeyPrefix = apiKeyPrefix}

\* The orders in which findMany may return the records of S.
Orders(S) ==
    { o \in [1..Cardinality(S) -> S] :
        \A i, j \in 1..Cardinality(S) : i # j => o[i] # o[j] }

KeyError(error, message, code) ==
    [ok |-> FALSE, error |-> error, message |-> message, code |-> code,
     clientId |-> 0, userId |-> "none"]

KeyFormatError ==
    KeyError("UnauthorizedError", "Invalid API key format", "INVALID_API_KEY_FORMAT")

\* A not-found failure that names its cause.
KeyNotFoundNamed ==
    KeyError("UnauthorizedError", "API key not found", "API_KEY_NOT_FOUND")

\* Line 127: no record has the lookup prefix.
KeyNotFound == KeyError("UnauthorizedError", "Invalid API key", "INVALID_API_KEY")

\* Line 144: no candidate's hash matches.
KeyMismatch == KeyError("UnauthorizedError", "Invalid API key", "INVALID_API_KEY")

\* Lines 132-141: the first candidate, in the order returned, whose hash the
\* key verifies against; 0 when there is none.
RECURSIVE FirstValid(_, _, _)
FirstValid(apiKey, clients, i) ==
    IF i > Len(clients) THEN 0
    ELSE IF verifyApiKey(apiKey, clients[i].apiKeyHash) THEN i
    ELSE FirstValid(apiKey, clients, i + 1)

\* ClientService.authenticateApiKey, given the candidates as returned.
AuthenticateApiKey(apiKey, clients) ==
    IF apiKey = EmptyKey \/ ~startsWith(apiKey, ApiKeyLiteral) THEN KeyFormatError
    ELSE IF Len(clients) = 0 THEN KeyNotFound
    ELSE LET i == FirstValid(apiKey, clients, 1)
         IN IF i # 0
            THEN [ok |-> TRUE, error |-> "none", message |-> "none",
                  code |-> "none", clientId |-> clients[i].id,
                  userId |-> clients[i].userId]
            ELSE KeyMismatch

KeyOp(op, apiKey, clients, r) ==
    [op |-> op, apiKey |-> apiKey, clients |-> clients, ok |-> r.ok,
     error |-> r.error, message |-> r.message, code |-> r.code,
     clientId |-> r.clientId, userId |-> r.userId]

NoKeyOp == KeyOp("none", EmptyKey, <<>>,
                 [ok |-> TRUE, error |-> "none", message |-> "none",
                  code |-> "none", clientId |-> 0, userId |-> "none"])

\* No bearer token, no resolved user, no resolved client.
NoToken == [sub |-> "none", exp |-> 0, sig |-> "none"]

NoUser == [userId |-> "none"]
NoClient == [clientId |-> 0, userId |-> "none"]

\* The request as the middlewares see it; thrown and message are the code
\* and message of the error a middleware ended with, attempted the
\* authentication paths entered.
Request(authorization, xApiKey) ==
    [authorization |-> authorization, xApiKey |-> xApiKey, user |-> NoUser,
     client |-> NoClient, attempted |-> <<>>, thrown |-> "none",
     message |-> "none"]

\* throw new UnauthorizedError(message, code) out of a middleware.
Throw(request, message, code) ==
    [request EXCEPT !.thrown = code, !.message = message]

\* catch (error) { } around a middleware.
Caught(request) == [request EXCEPT !.thrown = "none", !.message = "none"]

NoRequest ==
    [pc |-> "none", clients |-> <<>>,
     request |-> Request([scheme |-> "none", token |-> NoToken], EmptyKey)]

\* What the caller of a failed authenticateApiKey observes.
Observable(r) == [error |-> r.error, message |-> r.message, code |-> r.code]

authenticateApiKey(apiKey) ==
    /\ keyRes = NoKeyOp
    /\ \E clients \in Orders(findClientByApiKeyPrefix(LookupPrefix(apiKey))) :
          LET r == AuthenticateApiKey(apiKey, clients)
          IN /\ keyRes' = KeyOp("authenticate", apiKey, clients, r)
             /\ failSeen' =
                  IF ~r.ok /\ apiKey.literal = "ak_live_"
                  THEN failSeen \cup
                         {[registered |-> Len(clients) > 0, seen |-> Observable(r)]}
                  ELSE failSeen
    /\ UNCHANGED <<apiClients, issuedKeys>>
    /\ UNCHANGED nonKeyVars

Names == {"", "app"}

\* The row with the literal prefix alone stored as the lookup prefix.
ClientRecordShortPrefix(id, userId, apiKey) ==
    [id |-> id, userId |-> userId,
     apiKeyPrefix |-> [literal |-> apiKey.literal, head |-> ""],
     apiKeyHash |-> hashApiKey(apiKey, id)]

\* The row clientRepository.createClient writes, lines 67-76.
ClientRecord(id, userId, apiKey) ==
    [id |-> id, userId |-> userId, apiKeyPrefix |-> LookupPrefix(apiKey),
     apiKeyHash |-> hashApiKey(apiKey, id)]

\* ClientService.createClient: generateApiKey draws 32 random bytes, taken
\* to give a key not issued before.
createClient(userId, name, head, tail) ==
    LET apiKey == Key(ApiKeyLiteral, head, tail, "")
        id == Cardinality(issuedKeys) + 1
        client == ClientRecord(id, userId, apiKey)
    IN /\ keyRes = NoKeyOp
       /\ req = NoRequest
       /\ IF name = ""
          THEN /\ keyRes' = KeyOp("create", EmptyKey, <<>>,
                      KeyError("BadRequestError", "Client name is required",
                               "INVALID_CLIENT_NAME"))
               /\ UNCHANGED <<apiClients, issuedKeys, failSeen>>
               /\ UNCHANGED nonKeyVars
          ELSE /\ Cardinality(issuedKeys) < MaxClients
               /\ \A k \in issuedKeys : k.apiKey # apiKey
               /\ apiClients' = apiClients \cup {client}
               /\ issuedKeys' = issuedKeys \cup
                      {[id |-> id, userId |-> userId, apiKey |-> apiKey]}
               /\ keyRes' = KeyOp("create", apiKey, <<>>,
                      [ok |-> TRUE, error |-> "none", message |-> "none",
                       code |-> "none", clientId |-> id, userId |-> userId])
               /\ UNCHANGED failSeen
               /\ UNCHANGED nonKeyVars

\* ClientRepository.deleteClient
deleteClient(id, userId) ==
    /\ keyRes = NoKeyOp
    /\ \E c \in apiClients : c.id = id /\ c.userId = userId
    /\ apiClients' = {c \in apiClients : ~(c.id = id /\ c.userId = userId)}
    /\ UNCHANGED <<issuedKeys, keyRes, failSeen>>
    /\ UNCHANGED nonKeyVars

\* The caller has taken the operation's result or error.
RespondKey ==
    /\ keyRes # NoKeyOp
    /\ keyRes' = NoKeyOp
    /\ UNCHANGED <<apiClients, issuedKeys, failSeen>>
    /\ UNCHANGED nonKeyVars

(***************************************************************************)
(* Authentication middlewares: authMiddleware.ts.                          *)
(***************************************************************************)
\* A bearer token by what jwtVerify looks at: the subject it was signed for,
\* its expiry and the secret it was signed with.
AccessTokens ==
    { [sub |-> u, exp |-> x, sig |-> s] :
        u \in Users, x \in {1, MaxTime}, s \in {"secret", "forged"} }

\* Values of the Authorization header: absent, a bearer token, or another
\* scheme.
AuthorizationHeaders ==
    { [scheme |-> "none", token |-> NoToken] }
        \cup { [scheme |-> "Bearer ", token |-> t] : t \in AccessTokens }
        \cup { [scheme |-> "Basic ", token |-> NoToken] }

\* request.jwtVerify(): signature and expiry of the bearer token.
jwtVerify(authorization, t) ==
    /\ authorization.scheme = "Bearer "
    /\ authorization.token.sig = "secret"
    /\ t < authorization.token.exp

authenticateJWT(request, t) ==
    LET entered == [request EXCEPT !.attempted = Append(@, "jwt")]
    IN IF jwtVerify(request.authorization, t)
       THEN [entered EXCEPT !.user = [userId |-> request.authorization.token.sub]]
       ELSE Throw(entered, "Invalid or expired token", "INVALID_JWT_TOKEN")

authenticateApiKeyMiddleware(request, clients) ==
    IF request.xApiKey = EmptyKey
    THEN Throw(request, "API key is required", "MISSING_API_KEY")
    ELSE LET entered == [request EXCEPT !.attempted = Append(@, "apiKey")]
             r == AuthenticateApiKey(request.xApiKey, clients)
         IN IF r.ok
            THEN [entered EXCEPT
                    !.client = [clientId |-> r.clientId, userId |-> r.userId]]
            ELSE Throw(entered, r.message, r.code)

\* The API-key attempt letting the failure of authenticateApiKey through.
TryApiKeyRethrow(request, clients) ==
    IF request.xApiKey # EmptyKey
    THEN authenticateApiKeyMiddleware(request, clients)
    ELSE Throw(request,
               "Authentication required. Provide either Bearer token or X-API-Key header.",
               "AUTHENTICATION_REQUIRED")

\* Lines 102-117: the API-key attempt and the final failure.
TryApiKey(request, clients) ==
    LET tried == IF request.xApiKey # EmptyKey
                 THEN authenticateApiKeyMiddleware(request, clients)
                 ELSE request
    IN IF request.xApiKey # EmptyKey /\ tried.thrown = "none"
       THEN tried
       ELSE Throw(tried,
                  "Authentication required. Provide either Bearer token or X-API-Key header.",
                  "AUTHENTICATION_REQUIRED")

\* authenticateOptional going on to the API key after a verified token.
authenticateOptionalNoReturn(request, clients, t) ==
    LET bearer == request.authorization.scheme = "Bearer "
        tried == IF bearer THEN authenticateJWT(request, t) ELSE request
    IN TryApiKey(Caught(tried), clients)

\* authenticateOptional letting the failure of authenticateJWT through.
authenticateOptionalJwtFatal(request, clients, t) ==
    LET bearer == request.authorization.scheme = "Bearer "
        tried == IF bearer THEN authenticateJWT(request, t) ELSE request
    IN IF bearer
       THEN tried
       ELSE TryApiKey(Caught(tried), clients)

\* authenticateOptional admitting a request without valid credentials as a
\* guest of the first user.
authenticateOptionalGuest(request, clients, t) ==
    LET bearer == request.authorization.scheme = "Bearer "
        tried == IF bearer THEN authenticateJWT(request, t) ELSE request
        after == IF bearer /\ tried.thrown = "none" THEN tried
                 ELSE TryApiKey(Caught(tried), clients)
    IN IF after.thrown = "none" THEN after
       ELSE [Caught(after) EXCEPT !.user = [userId |-> "u1"]]

authenticateOptional(request, clients, t) ==
    LET bearer == request.authorization.scheme = "Bearer "
        tried == IF bearer THEN authenticateJWT(request, t) ELSE request
    IN IF bearer /\ tried.thrown = "none"
       THEN tried
       ELSE TryApiKey(Caught(tried), clients)

\* A request passes through authenticateOptional.
HandleRequest(authorization, xApiKey) ==
    /\ req = NoRequest
    /\ keyRes = NoKeyOp
    /\ \E clients \in Orders(findClientByApiKeyPrefix(LookupPrefix(xApiKey))) :
          req' = [pc |-> "done", clients |-> clients,
                  request |-> authenticateOptional(
                                  Request(authorization, xApiKey), clients, now)]
    /\ UNCHANGED now
    /\ UNCHANGED <<rateVars, tokenVars, keyVars, planVars, usageVars, registerVars, guardVars, gateVars>>

\* The request's reply has been sent.
RespondAuth ==
    /\ req # NoRequest
    /\ req' = NoRequest
    /\ UNCHANGED now
    /\ UNCHANGED <<rateVars, tokenVars, keyVars, planVars, usageVars, registerVars, guardVars, gateVars>>

(***************************************************************************)
(* Subscription plans: PlanConfig, PlanRepository and the cached           *)
(* PlanService.                                                            *)
(***************************************************************************)
PLAN_CONFIG ==
    [FREE |-> [requestsPerMinute |-> FreeRequestsPerMinute,
               requestsPerDay |-> FreeRequestsPerDay],
     PRO |-> [requestsPerMinute |-> ProRequestsPerMinute,
              requestsPerDay |-> ProRequestsPerDay]]

PlanType == DOMAIN PLAN_CONFIG

\* PLAN_CONFIG[planType] || PLAN_CONFIG[PlanType.FREE]
getPlanLimits(planType) ==
    IF planType \in DOMAIN PLAN_CONFIG THEN PLAN_CONFIG[planType]
    ELSE PLAN_CONFIG["FREE"]

\* The instants of the plan specifications: the seconds just after each
\* multiple of the cache lifetime.
PlanInstants ==
    { c * CacheTtl + s : c \in 0..MaxCycles, s \in 0..MaxSkew }

\* The row prisma.subscription.create writes for a user and plan.
Subscription(userId, planType) ==
    [userId |-> userId, plan |-> planType,
     requestsPerMinute |-> getPlanLimits(planType).requestsPerMinute,
     requestsPerDay |-> getPlanLimits(planType).requestsPerDay]

\* prisma.subscription.findUnique({ where: { userId } }): no row or one.
findSubscription(userId) == {s \in subscriptions : s.userId = userId}

\* JSON.stringify(limits) and JSON.parse(cached)
JsonStringify(limits) ==
    <<"requestsPerMinute", limits.requestsPerMinute,
      "requestsPerDay", limits.requestsPerDay>>

JsonParse(text) == [requestsPerMinute |-> text[2], requestsPerDay |-> text[4]]

\* A cache key that is not set, and the entry redis.set(key, value, 'EX', ttl)
\* leaves at time t.
NoEntry == [value |-> <<>>, exp |-> 0]
CacheEntry(value, ttl, t) == [value |-> value, exp |-> t + ttl]

NoLimits == [requestsPerMinute |-> 0, requestsPerDay |-> 0]

PlanLimitsSet == { PLAN_CONFIG[planType] : planType \in PlanType }
NeverHeld == 0 - 1

\* The strings a rate-limit key may be: user ids and client ids.
GatePrincipals == Users \cup { ToString(id) : id \in 1..MaxClients }

IdlePlan ==
    [pc |-> "idle", userId |-> "none", limits |-> NoLimits, at |-> 0]

\* The limits the durable store stands for: the row's, or the default.
DurableLimits(userId) ==
    IF findSubscription(userId) = {} THEN getPlanLimits("FREE")
    ELSE LET s == CHOOSE x \in findSubscription(userId) : TRUE
         IN [requestsPerMinute |-> s.requestsPerMinute,
             requestsPerDay |-> s.requestsPerDay]

\* History kept at each write of the subscription table: when the limits a
\* user's row stands for change, the instant until which the old ones held.
HeldAfter(newSubscriptions, userId) ==
    LET old == DurableLimits(userId)
        new == IF {s \in newSubscriptions : s.userId = userId} = {}
               THEN getPlanLimits("FREE")
               ELSE LET s == CHOOSE x \in newSubscriptions : x.userId = userId
                    IN [requestsPerMinute |-> s.requestsPerMinute,
                        requestsPerDay |-> s.requestsPerDay]
    IN IF old = new THEN heldUntil
       ELSE [heldUntil EXCEPT ![userId] = [@ EXCEPT ![old] = now]]

\* getPlanLimitsForUser, lines 109-118: the cache read.  A failed read and a
\* miss both go on to the durable store.
PlanCacheGet(p, userId) ==
    /\ plan[p].pc \in {"idle", "done"}
    /\ IF storeUp /\ planCache[userId] # NoEntry
       THEN plan' = [plan EXCEPT ![p] =
                [pc |-> "done", userId |-> userId,
                 limits |-> JsonParse(planCache[userId].value), at |-> now]]
       ELSE plan' = [plan EXCEPT ![p] =
                [pc |-> "db", userId |-> userId, limits |-> NoLimits, at |-> 0]]
    /\ UNCHANGED <<subscriptions, planCache, heldUntil>>
    /\ UNCHANGED nonPlanVars

\* The table after a read that creates the FREE row when there is none.
SubscriptionsAfterGetOrCreate(userId) ==
    IF findSubscription(userId) = {}
    THEN subscriptions \cup {Subscription(userId, "FREE")}
    ELSE subscriptions

\* The table after getSubscriptionByUserId: a findUnique, which writes
\* nothing.
SubscriptionsAfterRead(userId) == subscriptions

\* Lines 120-128 and 139-142: the limits of the user's row, or those of the
\* FREE plan when getSubscriptionByUserId throws NotFoundError.
PlanDbLimits(userId) ==
    IF findSubscription(userId) = {} THEN getPlanLimits("FREE")
    ELSE LET s == CHOOSE x \in findSubscription(userId) : TRUE
         IN [requestsPerMinute |-> s.requestsPerMinute,
             requestsPerDay |-> s.requestsPerDay]

PlanDbRead(p) ==
    /\ plan[p].pc = "db"
    /\ plan' = [plan EXCEPT ![p].pc = "set",
                            ![p].limits = PlanDbLimits(plan[p].userId)]
    /\ subscriptions' = SubscriptionsAfterRead(plan[p].userId)
    /\ UNCHANGED <<planCache, heldUntil>>
    /\ UNCHANGED nonPlanVars

\* The cache write with no try/catch around it: a failed write is thrown on.
PlanCacheSetUncaught(p) ==
    /\ plan[p].pc = "set"
    /\ planCache' =
         IF storeUp
         THEN [planCache EXCEPT ![plan[p].userId] =
                  CacheEntry(JsonStringify(plan[p].limits), CacheTtl, now)]
         ELSE planCache
    /\ plan' = IF storeUp
               THEN [plan EXCEPT ![p].pc = "done", ![p].at = now]
               ELSE [plan EXCEPT ![p].pc = "failed"]
    /\ UNCHANGED <<subscriptions, heldUntil>>
    /\ UNCHANGED nonPlanVars

\* Lines 130-137 and 143-149: the cache write, whose failure is ignored, and
\* the return.
PlanCacheSet(p) ==
    /\ plan[p].pc = "set"
    /\ planCache' =
         IF storeUp
         THEN [planCache EXCEPT ![plan[p].userId] =
                  CacheEntry(JsonStringify(plan[p].limits), CacheTtl, now)]
         ELSE planCache
    /\ plan' = [plan EXCEPT ![p].pc = "done", ![p].at = now]
    /\ UNCHANGED <<subscriptions, heldUntil>>
    /\ UNCHANGED nonPlanVars

\* PlanService.getUserSubscription: the row, created FREE when absent.
getUserSubscription(userId) ==
    /\ findSubscription(userId) = {}
    /\ subscriptions' = subscriptions \cup {Subscription(userId, "FREE")}
    /\ heldUntil' = HeldAfter(subscriptions', userId)
    /\ UNCHANGED <<planCache, plan>>
    /\ UNCHANGED nonPlanVars

\* PlanService.updateUserPlan: prisma update of the user's row.
updateUserPlan(userId, planType) ==
    /\ findSubscription(userId) # {}
    /\ subscriptions' =
         {s \in subscriptions : s.userId # userId}
            \cup {Subscription(userId, planType)}
    /\ subscriptions' # subscriptions
    /\ heldUntil' = HeldAfter(subscriptions', userId)
    /\ UNCHANGED <<planCache, plan>>
    /\ UNCHANGED nonPlanVars

\* Time passes to the next instant; the cache drops the entries whose
\* expiration has been reached.  A call in flight takes seconds, not a
\* cache lifetime: the step to the next multiple of the lifetime waits for
\* the calls in flight to return.
TickPlan ==
    /\ \E t \in PlanInstants :
          /\ t > now
          /\ \A u \in PlanInstants : ~(now < u /\ u < t)
          /\ t > now + 1 => \A p \in Procs : plan[p].pc \in {"idle", "done"}
          /\ now' = t
          /\ planCache' = [u \in Users |->
                             IF planCache[u] # NoEntry /\ planCache[u].exp <= t
                             THEN NoEntry ELSE planCache[u]]
    /\ UNCHANGED <<subscriptions, plan, heldUntil>>
    /\ UNCHANGED <<rateVars, tokenVars, keyVars, authVars, usageVars, registerVars, guardVars, gateVars>>

\* The catch block answering every error of the read as it answers
\* NotFoundError: with the FREE limits.
PlanDbFailsAsNotFound(p) ==
    /\ plan[p].pc = "db"
    /\ plan' = [plan EXCEPT ![p].pc = "set", ![p].limits = getPlanLimits("FREE")]
    /\ UNCHANGED <<subscriptions, planCache, heldUntil>>
    /\ UNCHANGED nonPlanVars

\* getSubscriptionByUserId rejects with an error other than NotFoundError
\* (the database cannot be reached): lines 150-151 throw it on.
PlanDbFails(p) ==
    /\ plan[p].pc = "db"
    /\ plan' = [plan EXCEPT ![p].pc = "failed"]
    /\ UNCHANGED <<subscriptions, planCache, heldUntil>>
    /\ UNCHANGED nonPlanVars

\* The PlanService without a cache, lines 37-53: the row's limits, the FREE
\* limits on NotFoundError, any other error of the read thrown on.
getPlanLimitsForUserUncached(userId, dbAnswers) ==
    IF ~dbAnswers THEN [thrown |-> TRUE, limits |-> NoLimits]
    ELSE IF findSubscription(userId) = {}
      THEN [thrown |-> FALSE, limits |-> getPlanLimits("FREE")]
    ELSE LET subscription == CHOOSE x \in findSubscription(userId) : TRUE
         IN [thrown |-> FALSE,
             limits |-> [requestsPerMinute |-> subscription.requestsPerMinute,
                         requestsPerDay |-> subscription.requestsPerDay]]

(***************************************************************************)
(* The errors and errorHandler.                                            *)
(***************************************************************************)
\* The status code each AppError subclass passes to super().
StatusCodes ==
    [BadRequestError |-> 400, UnauthorizedError |-> 401, ForbiddenError |-> 403,
     NotFoundError |-> 404, ConflictError |-> 409,
     TooManyRequestsError |-> 429, InternalServerError |-> 500]

NoError ==
    [class |-> "none", statusCode |-> Undefined, message |-> "none",
     code |-> "none"]

\* new <class>(message, code) for a subclass of AppError.
AppErrorOf(class, message, code) ==
    [class |-> class, statusCode |-> StatusCodes[class], message |-> message,
     code |-> code]

\* The error prisma rejects with when the database cannot be reached: no
\* statusCode property.
PrismaError ==
    [class |-> "PrismaClientInitializationError", statusCode |-> Undefined,
     message |-> "Can't reach database server", code |-> "P1001"]

\* error instanceof AppError
instanceofAppError(error) == error.class \in DOMAIN StatusCodes

\* error.statusCode in a condition or on the left of ||: a number that is
\* neither undefined nor 0.
TruthyStatus(statusCode) == statusCode # Undefined /\ statusCode # 0

\* error.code on the left of ||: a string that is neither undefined nor
\* empty.
TruthyCode(code) == code # "none" /\ code # ""

Reply(status, error, code) == [status |-> status, error |-> error, code |-> code]

NoReply == Reply(0, "none", "none")

\* errorHandler with the branches for AppError and for errors carrying a
\* status code left out.
errorHandlerUnexpectedOnly(error) ==
    IF error.class = "ZodError"
    THEN Reply(400, "Validation Error", "VALIDATION_ERROR")
    ELSE Reply(500, "Internal server error", "INTERNAL_ERROR")

\* errorHandler, lines 118-206: the status and the body's error and code.
errorHandler(error) ==
    IF error.class = "ZodError"
    THEN Reply(400, "Validation Error", "VALIDATION_ERROR")
    ELSE IF instanceofAppError(error)
    THEN Reply(IF TruthyStatus(error.statusCode) THEN error.statusCode ELSE 500,
               error.message,
               IF TruthyCode(error.code) THEN error.code ELSE "APPLICATION_ERROR")
    ELSE IF TruthyStatus(error.statusCode)
    THEN Reply(error.statusCode, error.message,
               IF TruthyCode(error.code) THEN error.code ELSE "HTTP_ERROR")
    ELSE Reply(500, "Internal server error", "INTERNAL_ERROR")

(***************************************************************************)
(* RateLimitService.getCurrentUsage                                        *)
(***************************************************************************)
\* redis.get(key): null for a key that does not exist, else the counter as
\* a decimal string.
Null == [str |-> Undefined]
RedisGet(store, k) ==
    IF k \in DOMAIN store THEN [str |-> store[k].count] ELSE Null

\* parseInt(value, 10)
ParseInt(value) == value.str

\* The read of one counter without the default for a missing key.
ReadCountNoDefault(value) == ParseInt(value)

\* Lines 201-202: value ? parseInt(value, 10) : 0
ReadCount(value) == IF value # Null THEN ParseInt(value) ELSE 0

NoUsage ==
    [op |-> "none", clientId |-> "c1", minuteCount |-> 0, dayCount |-> 0,
     thrown |-> "none", failed |-> FALSE]

\* Lines 184-209; failed records that the reads were rejected.
getCurrentUsage(clientId) ==
    /\ usageRes = NoUsage
    /\ LET minuteKey == RateKey(clientId, getMinuteWindow(now))
           dayKey == RateKey(clientId, getDayWindow(now))
       IN usageRes' =
            IF storeUp
            THEN [NoUsage EXCEPT
                    !.op = "usage", !.clientId = clientId,
                    !.minuteCount = ReadCount(RedisGet(redisStore, minuteKey)),
                    !.dayCount = ReadCount(RedisGet(redisStore, dayKey))]
            ELSE [NoUsage EXCEPT !.op = "usage", !.clientId = clientId,
                                 !.failed = TRUE]
    /\ UNCHANGED <<now, rateVars, tokenVars, keyVars, authVars, planVars,
                   gateVars, guardVars, registerVars>>

\* The caller has taken the usage figures.
RespondUsage ==
    /\ usageRes # NoUsage
    /\ usageRes' = NoUsage
    /\ UNCHANGED <<now, rateVars, tokenVars, keyVars, authVars, planVars,
                   gateVars, guardVars, registerVars>>

(***************************************************************************)
(* The gate of the protected routes: createApp's onRequest hooks and       *)
(* rateLimitMiddleware.                                                    *)
(***************************************************************************)
\* fastify.addHook('onRequest', ...) in registration order.
OnRequestHooksAuthOnly == <<"authenticateOptional">>

OnRequestHooks == <<"authenticateOptional", "rateLimitMiddleware">>

\* rateLimitMiddleware reading the identity of API-key requests only.
ResolveIdentityClientOnly(request) ==
    LET userId == IF request.client # NoClient THEN request.client.userId
                  ELSE "none"
        clientId == IF request.client # NoClient
                    THEN ToString(request.client.clientId) ELSE "none"
    IN [userId |-> userId, clientId |-> clientId,
        rateLimitKey |-> IF clientId # "none" THEN clientId ELSE userId]

\* rateLimitMiddleware keyed by the user whoever authenticated.
ResolveIdentityByUser(request) ==
    LET userId == IF request.client # NoClient THEN request.client.userId
                  ELSE IF request.user # NoUser THEN request.user.userId
                  ELSE "none"
    IN [userId |-> userId, clientId |-> "none", rateLimitKey |-> userId]

\* rateLimitMiddleware lines 28-49: userId, clientId and the rate-limit key
\* clientId || userId; ids are strings.
ResolveIdentity(request) ==
    LET userId == IF request.client # NoClient THEN request.client.userId
                  ELSE IF request.user # NoUser THEN request.user.userId
                  ELSE "none"
        clientId == IF request.client # NoClient
                    THEN ToString(request.client.clientId) ELSE "none"
    IN [userId |-> userId, clientId |-> clientId,
        rateLimitKey |-> IF clientId # "none" THEN clientId ELSE userId]

\* RateLimitService.checkRateLimit run to its end against an answering
\* store: what it leaves in the store and what it returns or throws.
checkRateLimit(store, clientId, rpm, rpd, t) ==
    LET mk == RateKey(clientId, getMinuteWindow(t))
        dk == RateKey(clientId, getDayWindow(t))
        s1 == Incr(Incr(store, mk), dk)
        call == [Idle EXCEPT !.clientId = clientId, !.at = t,
                             !.minuteCount = s1[mk].count,
                             !.dayCount = s1[dk].count]
        r == CheckLimits(call.minuteCount, call.dayCount, rpm, rpd)
    IN [store |-> ApplyExpires(s1, ExpirationCommands(call), t),
        outcome |-> r.outcome, thrown |-> r.thrown,
        message |-> IF r.outcome = "RATE_LIMIT_MINUTE"
                    THEN "Rate limit exceeded: " \o ToString(rpm)
                            \o " requests per minute"
                    ELSE IF r.outcome = "RATE_LIMIT_DAY"
                    THEN "Rate limit exceeded: " \o ToString(rpd)
                            \o " requests per day"
                    ELSE "none"]

NoGate ==
    [pc |-> "none", hook |-> 0, clients |-> <<>>,
     request |-> Request([scheme |-> "none", token |-> NoToken], EmptyKey),
     rateLimitKey |-> "none", limits |-> NoLimits, outcome |-> "none",
     stages |-> <<>>, error |-> NoError, reply |-> NoReply]

\* A request for a protected route arrives.
GateArrive(authorization, xApiKey) ==
    /\ gate.pc = "none"
    /\ calls < MaxRequests
    /\ gate' = [NoGate EXCEPT !.pc = "onRequest", !.hook = 1,
                              !.request = Request(authorization, xApiKey)]
    /\ UNCHANGED <<now, charged>>
    /\ UNCHANGED <<rateVars, tokenVars, keyVars, authVars, planVars, usageVars, registerVars, guardVars>>

\* The hook the request is at, "none" past the last one.
CurrentHook ==
    IF gate.pc = "onRequest" /\ gate.hook <= Len(OnRequestHooks)
    THEN OnRequestHooks[gate.hook] ELSE "none"

\* The hook authenticateOptional; a hook that throws ends the chain.
GateAuthenticate ==
    /\ CurrentHook = "authenticateOptional"
    /\ \E clients \in Orders(findClientByApiKeyPrefix(
                                LookupPrefix(gate.request.xApiKey))) :
          LET r == authenticateOptional(gate.request, clients, now)
              error == IF r.thrown = "none" THEN NoError
                       ELSE AppErrorOf("UnauthorizedError", r.message, r.thrown)
          IN gate' = [gate EXCEPT
                        !.request = r, !.clients = clients,
                        !.stages = Append(@, "authenticateOptional"),
                        !.pc = IF r.thrown # "none" THEN "errorHandler"
                               ELSE "onRequest",
                        !.error = error,
                        !.reply = IF error = NoError THEN NoReply
                                  ELSE errorHandler(error),
                        !.hook = @ + 1]
    /\ UNCHANGED <<now, charged>>
    /\ UNCHANGED <<rateVars, tokenVars, keyVars, authVars, planVars, usageVars, registerVars, guardVars>>

\* The hook rateLimitMiddleware, lines 27-54: without a userId it returns;
\* otherwise getPlanLimitsForUser starts with its cache read.
GateResolveLimits ==
    /\ CurrentHook = "rateLimitMiddleware"
    /\ plan["p1"].pc = "idle"
    /\ IF ResolveIdentity(gate.request).userId = "none"
       THEN /\ gate' = [gate EXCEPT !.hook = @ + 1]
            /\ UNCHANGED <<now, charged>>
            /\ UNCHANGED <<rateVars, tokenVars, keyVars, authVars, planVars,
                           usageVars, registerVars, guardVars>>
       ELSE PlanCacheGet("p1", ResolveIdentity(gate.request).userId)

\* getPlanLimitsForUser goes on inside the hook.
GatePlanStep ==
    /\ CurrentHook = "rateLimitMiddleware"
    /\ PlanDbRead("p1") \/ PlanCacheSet("p1") \/ PlanDbFails("p1")

\* getPlanLimitsForUser has thrown: the error leaves the hook, line 54.
GatePlanThrows ==
    /\ CurrentHook = "rateLimitMiddleware"
    /\ plan["p1"].pc = "failed"
    /\ gate' = [gate EXCEPT
                  !.stages = Append(@, "getPlanLimitsForUser"),
                  !.pc = "errorHandler",
                  !.error = PrismaError,
                  !.reply = errorHandler(PrismaError),
                  !.hook = @ + 1]
    /\ plan' = [plan EXCEPT !["p1"] = IdlePlan]
    /\ UNCHANGED <<now, charged>>
    /\ UNCHANGED <<subscriptions, planCache, heldUntil>>
    /\ UNCHANGED <<rateVars, tokenVars, keyVars, authVars, usageVars, registerVars, guardVars>>

\* Lines 56-62: checkRateLimit with the plan's limits; a denial is thrown
\* out of the hook.
GateCheckRateLimit ==
    /\ CurrentHook = "rateLimitMiddleware"
    /\ plan["p1"].pc = "done"
    /\ LET id == ResolveIdentity(gate.request)
           limits == plan["p1"].limits
           r == checkRateLimit(redisStore, id.rateLimitKey,
                               limits.requestsPerMinute, limits.requestsPerDay,
                               now)
           error == IF r.thrown = "none" THEN NoError
                    ELSE AppErrorOf(r.thrown, r.message, r.outcome)
       IN /\ redisStore' = r.store
          /\ charged' = [charged EXCEPT ![id.rateLimitKey] = @ + 1]
          /\ gate' = [gate EXCEPT
                        !.rateLimitKey = id.rateLimitKey, !.limits = limits,
                        !.outcome = r.outcome,
                        !.stages = @ \o <<"getPlanLimitsForUser", "checkRateLimit">>,
                        !.pc = IF r.thrown # "none" THEN "errorHandler"
                               ELSE "onRequest",
                        !.error = error,
                        !.reply = IF error = NoError THEN NoReply
                                  ELSE errorHandler(error),
                        !.hook = @ + 1]
    /\ plan' = [plan EXCEPT !["p1"] = IdlePlan]
    /\ calls' = calls + 1
    /\ UNCHANGED <<now, storeUp, rl, issued, everDown>>
    /\ UNCHANGED <<subscriptions, planCache, heldUntil>>
    /\ UNCHANGED <<tokenVars, keyVars, authVars, usageVars, registerVars, guardVars>>

\* Past the last hook the route's controller runs.
GateController ==
    /\ gate.pc = "onRequest"
    /\ gate.hook > Len(OnRequestHooks)
    /\ gate' = [gate EXCEPT !.pc = "handled",
                            !.stages = Append(@, "controller")]
    /\ UNCHANGED <<now, charged>>
    /\ UNCHANGED <<rateVars, tokenVars, keyVars, authVars, planVars, usageVars, registerVars, guardVars>>

\* The reply is sent, by the controller or by the error handler.
GateReply ==
    /\ gate.pc \in {"handled", "errorHandler"}
    /\ gate' = NoGate
    /\ UNCHANGED <<now, charged>>
    /\ UNCHANGED <<rateVars, tokenVars, keyVars, authVars, planVars, usageVars, registerVars, guardVars>>

(***************************************************************************)
(* authRateLimitMiddleware: the brute-force guard of POST /auth/register   *)
(* and POST /auth/login.                                                   *)
(***************************************************************************)
\* request.ip
Ips == {"ip1", "ip2"}

\* The instants of the guard's specification: the seconds just after each
\* multiple of the window.
GuardInstants ==
    { c * AuthWindow + s : c \in 0..MaxCycles, s \in 0..MaxSkew }

\* `auth:limit:${ip}`
AuthKey(ip) == <<"auth:limit", ip>>

NoGuard ==
    [pc |-> "none", ip |-> "ip1", usage |-> 0, at |-> 0, opened |-> 0,
     rank |-> 0, thrown |-> "none", code |-> "none", handled |-> "none",
     failedAt |-> "none"]

\* History of an IP: the instant its window opened and the requests that
\* arrived in the window.  A window opens with the first request and with
\* the first request that arrives once a window has run out and its counter
\* is gone.
NoWindow == [opened |-> NeverHeld, seen |-> 0]

WindowOpen(h, t) == h.opened # NeverHeld /\ t < h.opened + AuthWindow

WindowAfter(h, store, ip, t) ==
    IF WindowOpen(h, t) THEN [h EXCEPT !.seen = @ + 1]
    ELSE IF AuthKey(ip) \notin DOMAIN store THEN [opened |-> t, seen |-> 1]
    ELSE h

\* Line 25: redis.incr(key).  The request's place in the window of its IP
\* is kept with it: rank 0 for a request that arrives after the window while
\* the counter still exists.
GuardIncr(p, ip) ==
    /\ guard[p].pc = "none"
    /\ storeUp
    /\ calls < MaxAttempts
    /\ LET store == Incr(redisStore, AuthKey(ip))
           h == WindowAfter(guardHist[ip], redisStore, ip, now)
       IN /\ redisStore' = store
          /\ guardHist' = [guardHist EXCEPT ![ip] = h]
          /\ guard' = [guard EXCEPT ![p] =
                [NoGuard EXCEPT
                    !.pc = "incremented", !.ip = ip,
                    !.usage = store[AuthKey(ip)].count, !.at = now,
                    !.opened = h.opened,
                    !.rank = IF WindowOpen(h, now) THEN h.seen ELSE 0]]
    /\ calls' = calls + 1
    /\ UNCHANGED <<now, storeUp, rl, issued, everDown>>
    /\ UNCHANGED <<tokenVars, keyVars, authVars, planVars, usageVars, registerVars, gateVars>>

\* The comparison of line 31 with >= for >.
OverLimitAtLimit(usage) == usage >= AuthLimit

\* Line 31: usage > LIMIT
OverLimit(usage) == usage > AuthLimit

\* Lines 27-37: the first request of a counter sets its expiration; a
\* request over the limit is thrown out, the others go on to the handler.
GuardExpireAndCheck(p) ==
    /\ guard[p].pc = "incremented"
    /\ storeUp \/ guard[p].usage # 1
    /\ redisStore' =
         IF guard[p].usage = 1
         THEN Expire(redisStore, AuthKey(guard[p].ip), AuthWindow, now)
         ELSE redisStore
    /\ guard' = [guard EXCEPT ![p] =
          IF OverLimit(guard[p].usage)
          THEN [@ EXCEPT !.pc = "rejected", !.thrown = "TooManyRequestsError",
                         !.code = "AUTH_RATE_LIMIT_EXCEEDED"]
          ELSE [@ EXCEPT !.pc = "handler"]]
    /\ UNCHANGED <<now, storeUp, rl, issued, everDown, calls, guardHist>>
    /\ UNCHANGED <<tokenVars, keyVars, authVars, planVars, usageVars, registerVars, gateVars>>

\* Line 25 with the store unavailable: redis.incr rejects, the catch block
\* logs and the middleware returns.
GuardIncrFails(p, ip) ==
    /\ guard[p].pc = "none"
    /\ ~storeUp
    /\ calls < MaxAttempts
    /\ guard' = [guard EXCEPT ![p] =
          [NoGuard EXCEPT !.pc = "handler", !.ip = ip, !.at = now,
                          !.failedAt = "incr"]]
    /\ calls' = calls + 1
    /\ UNCHANGED <<now, redisStore, storeUp, rl, issued, everDown, guardHist>>
    /\ UNCHANGED <<tokenVars, keyVars, authVars, planVars, usageVars, registerVars, gateVars>>

\* The catch block of lines 38-44 throwing every error on.
GuardExpireFailsClosed(p) ==
    /\ guard[p].pc = "incremented"
    /\ ~storeUp
    /\ guard[p].usage = 1
    /\ guard' = [guard EXCEPT ![p].pc = "rejected", ![p].thrown = "Error",
                              ![p].failedAt = "expire"]
    /\ UNCHANGED <<now, rateVars, guardHist>>
    /\ UNCHANGED <<tokenVars, keyVars, authVars, planVars, usageVars, registerVars, gateVars>>

\* Line 28 with the store unavailable: redis.expire rejects after the INCR
\* has created the counter; the catch block logs and the middleware returns.
GuardExpireFails(p) ==
    /\ guard[p].pc = "incremented"
    /\ ~storeUp
    /\ guard[p].usage = 1
    /\ guard' = [guard EXCEPT ![p].pc = "handler", ![p].failedAt = "expire"]
    /\ UNCHANGED <<now, rateVars, guardHist>>
    /\ UNCHANGED <<tokenVars, keyVars, authVars, planVars, usageVars, registerVars, gateVars>>

\* authController.register or login runs and succeeds or fails.
GuardHandler(p, outcome) ==
    /\ guard[p].pc = "handler"
    /\ guard' = [guard EXCEPT ![p].pc = "replied", ![p].handled = outcome]
    /\ UNCHANGED <<now, rateVars, guardHist>>
    /\ UNCHANGED <<tokenVars, keyVars, authVars, planVars, usageVars, registerVars, gateVars>>

\* The reply is sent.
GuardReply(p) ==
    /\ guard[p].pc \in {"replied", "rejected"}
    /\ guard' = [guard EXCEPT ![p] = NoGuard]
    /\ UNCHANGED <<now, rateVars, guardHist>>
    /\ UNCHANGED <<tokenVars, keyVars, authVars, planVars, usageVars, registerVars, gateVars>>

\* Time passes to the next instant and the store drops the keys whose
\* expiration has been reached.  A request between its INCR and its EXPIRE
\* takes seconds, not a window.
TickGuard ==
    /\ \E t \in GuardInstants :
          /\ t > now
          /\ \A u \in GuardInstants : ~(now < u /\ u < t)
          /\ t > now + 1 => \A p \in Procs : guard[p].pc # "incremented"
          /\ now' = t
          /\ redisStore' = Evict(redisStore, t)
    /\ UNCHANGED <<storeUp, rl, issued, everDown, calls, guardVars>>
    /\ UNCHANGED <<tokenVars, keyVars, authVars, planVars, usageVars, registerVars, gateVars>>

(***************************************************************************)
(* AuthService.register: the user row and its default subscription.        *)
(***************************************************************************)
Emails == {"a@x", "b@x"}

NoRegister == [pc |-> "idle", email |-> "none", userId |-> "none", outcome |-> "none"]

\* prisma.user.findUnique({ where: { email } }): no row or one.
findUserByEmail(email) == {u \in users : u.email = email}

\* Lines 83-89: the email is looked up; a taken email ends the call with
\* ConflictError, otherwise the password is hashed.
registerFind(p, email) ==
    /\ reg[p].pc = "idle"
    /\ reg' = [reg EXCEPT ![p] =
                 IF findUserByEmail(email) # {}
                 THEN [NoRegister EXCEPT !.pc = "done", !.email = email,
                                         !.outcome = "EMAIL_ALREADY_EXISTS"]
                 ELSE [NoRegister EXCEPT !.pc = "create", !.email = email]]
    /\ UNCHANGED <<now, users>>
    /\ UNCHANGED <<rateVars, tokenVars, keyVars, authVars, planVars, usageVars,
                   gateVars, guardVars>>

\* Lines 92-96: prisma.user.create gives the row a fresh id; the unique
\* index on email rejects a second row for an email registered meanwhile.
registerCreateUser(p) ==
    /\ reg[p].pc = "create"
    /\ IF findUserByEmail(reg[p].email) # {}
       THEN /\ reg' = [reg EXCEPT ![p] = [@ EXCEPT !.pc = "done", !.outcome = "P2002"]]
            /\ UNCHANGED users
       ELSE \E id \in Users \ {u.id : u \in users} :
               /\ users' = users \cup {[id |-> id, email |-> reg[p].email]}
               /\ reg' = [reg EXCEPT ![p] = [@ EXCEPT !.pc = "subscribe", !.userId = id]]
    /\ UNCHANGED now
    /\ UNCHANGED <<rateVars, tokenVars, keyVars, authVars, planVars, usageVars,
                   gateVars, guardVars>>

\* prisma.user.create rejects because the database is out of reach.
registerCreateUserFails(p) ==
    /\ reg[p].pc = "create"
    /\ reg' = [reg EXCEPT ![p] = [@ EXCEPT !.pc = "done", !.outcome = "DatabaseError"]]
    /\ UNCHANGED <<now, users>>
    /\ UNCHANGED <<rateVars, tokenVars, keyVars, authVars, planVars, usageVars,
                   gateVars, guardVars>>

\* Line 99 and PlanRepository.createSubscription: the FREE row of the new
\* user; the unique index on userId rejects a second row.
registerCreateSubscription(p) ==
    /\ reg[p].pc = "subscribe"
    /\ IF findSubscription(reg[p].userId) = {}
       THEN /\ subscriptions' = subscriptions \cup {Subscription(reg[p].userId, "FREE")}
            /\ heldUntil' = HeldAfter(subscriptions', reg[p].userId)
            /\ reg' = [reg EXCEPT ![p] = [@ EXCEPT !.pc = "done", !.outcome = "ok"]]
       ELSE /\ reg' = [reg EXCEPT ![p] = [@ EXCEPT !.pc = "done", !.outcome = "P2002"]]
            /\ UNCHANGED <<subscriptions, heldUntil>>
    /\ UNCHANGED <<now, users, planCache, plan>>
    /\ UNCHANGED <<rateVars, tokenVars, keyVars, authVars, usageVars, gateVars, guardVars>>

\* prisma.subscription.create rejects because the database is out of reach:
\* the error leaves register, line 99, and nothing after it runs.
registerCreateSubscriptionFails(p) ==
    /\ reg[p].pc = "subscribe"
    /\ reg' = [reg EXCEPT ![p] = [@ EXCEPT !.pc = "done", !.outcome = "DatabaseError"]]
    /\ UNCHANGED <<now, users>>
    /\ UNCHANGED <<rateVars, tokenVars, keyVars, authVars, planVars, usageVars,
                   gateVars, guardVars>>

\* register has returned or thrown and the reply is sent.
registerReturn(p) ==
    /\ reg[p].pc = "done"
    /\ reg' = [reg EXCEPT ![p] = NoRegister]
    /\ UNCHANGED <<now, users>>
    /\ UNCHANGED <<rateVars, tokenVars, keyVars, authVars, planVars, usageVars,
                   gateVars, guardVars>>

\* The state of the plan, usage, guard and gate components before any call.
InitRest ==
    /\ subscriptions = {}
    /\ planCache = [u \in Users |-> NoEntry]
    /\ plan = [p \in Procs |-> IdlePlan]
    /\ heldUntil = [u \in Users |-> [l \in PlanLimitsSet |-> NeverHeld]]
    /\ usageRes = NoUsage
    /\ gate = NoGate
    /\ charged = [k \in GatePrincipals |-> 0]
    /\ guard = [p \in Procs |-> NoGuard]
    /\ guardHist = [ip \in Ips |-> NoWindow]
    /\ users = {}
    /\ reg = [p \in Procs |-> NoRegister]

Init ==
    /\ now = 5
    /\ redisStore = <<>>
    /\ storeUp = TRUE
    /\ rl = [p \in Procs |-> Idle]
    /\ issued = [c \in ClientIds |-> [m |-> 0, d |-> 0]]
    /\ everDown = FALSE
    /\ calls = 0
    /\ refreshTokens = {}
    /\ tokRes = NoOp
    /\ revokedDone = {}
    /\ apiClients = {}
    /\ issuedKeys = {}
    /\ keyRes = NoKeyOp
    /\ failSeen = {}
    /\ req = NoRequest
    /\ InitRest

(***************************************************************************)
(* Properties of the rate limiter.                                         *)
(***************************************************************************)
Finished == {p \in Procs : rl[p].pc = "done"}

\* C1: with a healthy store, a call whose ordinal within its minute window and
\* within its day window is within both limits returns Allowed; the call of
\* ordinal requestsPerMinute + 1 (or beyond) in its minute throws
\* TooManyRequestsError RATE_LIMIT_MINUTE; with the minute limit not binding,
\* the call of ordinal requestsPerDay + 1 (or beyond) in its day throws
\* TooManyRequestsError RATE_LIMIT_DAY.
C1_FirstLAllowedThenDenied ==
    \A p \in Finished :
        ~everDown =>
            LET c == rl[p] IN
            /\ (c.rankMinute <= c.rpm /\ c.rankDay <= c.rpd)
                  => (c.outcome = "Allowed" /\ c.thrown = "none")
            /\ c.rankMinute > c.rpm
                  => (c.outcome = "RATE_LIMIT_MINUTE"
                      /\ c.thrown = "TooManyRequestsError")
            /\ (c.rankMinute <= c.rpm /\ c.rankDay > c.rpd)
                  => (c.outcome = "RATE_LIMIT_DAY"
                      /\ c.thrown = "TooManyRequestsError")

\* The third call of a minute is denied under a limit of two.
C1_Witness ==
    \E p \in Finished :
        /\ ~everDown
        /\ rl[p].rpm >= 2
        /\ rl[p].rankMinute = rl[p].rpm + 1
        /\ rl[p].outcome = "RATE_LIMIT_MINUTE"

\* C2: with a healthy store, the minute count a call observes is its ordinal
\* among the client's calls of the current minute (it restarts at 1 after a
\* minute boundary) and the day count it observes is its ordinal among the
\* client's calls of the current day (it continues across minute boundaries
\* and restarts at 1 after a day boundary); so the first call of a minute is
\* Allowed unless the day limit is reached.
C2_WindowsResetIndependently ==
    \A p \in Procs :
        (rl[p].pc \in {"incremented", "done"} /\ ~everDown) =>
            /\ rl[p].minuteCount = rl[p].rankMinute
            /\ rl[p].dayCount = rl[p].rankDay
            /\ (rl[p].pc = "done" /\ rl[p].rankMinute = 1
                    /\ rl[p].rankDay <= rl[p].rpd)
                  => rl[p].outcome = "Allowed"

\* A client denied for the minute limit is allowed in a later minute, its day
\* count continuing at 3.
C2_Witness ==
    \E p \in Finished :
        /\ ~everDown
        /\ rl[p].afterDenial
        /\ rl[p].minuteCount = 1
        /\ rl[p].dayCount = 3
        /\ rl[p].outcome = "Allowed"

\* C3: when both observed counts exceed their limits the call is never denied
\* with RATE_LIMIT_DAY, and is denied with RATE_LIMIT_MINUTE when no store
\* call of it failed; RATE_LIMIT_DAY is reported only with the minute count
\* within its limit and the day count above its limit.
C3_MinutePrecedence ==
    \A p \in Finished :
        LET c == rl[p] IN
        /\ (JsGreater(c.minuteCount, c.rpm) /\ JsGreater(c.dayCount, c.rpd))
              => /\ c.outcome # "RATE_LIMIT_DAY"
                 /\ c.failedAt = "none" => c.outcome = "RATE_LIMIT_MINUTE"
        /\ c.outcome = "RATE_LIMIT_DAY"
              => (~JsGreater(c.minuteCount, c.rpm) /\ JsGreater(c.dayCount, c.rpd))

C3_Witness ==
    \E p \in Finished :
        /\ JsGreater(rl[p].minuteCount, rl[p].rpm)
        /\ JsGreater(rl[p].dayCount, rl[p].rpd)
        /\ rl[p].outcome = "RATE_LIMIT_MINUTE"

\* C4: a call in which a counter-store call failed, at the increment step or
\* at the expiration step, returns Allowed and throws nothing.
C4_FailOpenOnAnyStoreFailure ==
    \A p \in Finished :
        rl[p].failedAt # "none"
            => (rl[p].outcome = "Allowed" /\ rl[p].thrown = "none")

\* One caller at a time, the store always answering.
NextRate ==
    \/ \E c \in ClientIds, rpm \in MinuteLimits, rpd \in DayLimits :
          IncrementOk("p1", c, rpm, rpd)
    \/ ExpireAndCheck("p1")
    \/ Tick

SpecRate == Init /\ [][NextRate]_vars

\* One caller at a time for one client, the store failing and recovering.
NextRateFaults ==
    \/ \E rpm \in MinuteLimits, rpd \in DayLimits :
          IncrementOk("p1", "c1", rpm, rpd)
    \/ \E rpm \in MinuteLimits, rpd \in DayLimits, mode \in ExecFailureModes :
          IncrementFails("p1", "c1", rpm, rpd, mode)
    \/ ExpireAndCheck("p1")
    \/ \E mode \in ExecFailureModes : ExpireFails("p1", mode)
    \/ Tick
    \/ StoreFails
    \/ StoreRecovers

SpecRateFaults == Init /\ [][NextRateFaults]_vars

\* The refresh-token table holds no record or one legacy record.
InitToken ==
    /\ now = 1
    /\ redisStore = <<>>
    /\ storeUp = TRUE
    /\ rl = [p \in Procs |-> Idle]
    /\ issued = [c \in ClientIds |-> [m |-> 0, d |-> 0]]
    /\ everDown = FALSE
    /\ calls = 0
    /\ refreshTokens \in
          { S \in SUBSET LegacyRecords : Cardinality(S) <= 1 }
    /\ tokRes = NoOp
    /\ revokedDone = {}
    /\ apiClients = {}
    /\ issuedKeys = {}
    /\ keyRes = NoKeyOp
    /\ failSeen = {}
    /\ req = NoRequest
    /\ InitRest

NextToken ==
    \/ \E u \in Users : saveRefreshToken(u)
    \/ \E token \in PresentedTokens : validateRefreshToken(token)
    \/ \E token \in PresentedTokens : revokeRefreshToken(token)
    \/ deleteExpiredTokens
    \/ TickToken
    \/ Respond

SpecToken == InitToken /\ [][NextToken]_vars
\* The stored records a presented token addresses: the record keyed by the
\* token's digest, or the record keyed by the token itself.
RecordsFor(token) ==
    {r \in refreshTokens : r.token = Sha256(token) \/ r.token = token}

\* C5: once revokeRefreshToken(t) has completed for a token t that had a
\* stored record (hashed or legacy plaintext), no later validateRefreshToken(t)
\* succeeds, whatever the record's expiresAt; as long as the record is still
\* in the table, expired or not, the failure is REVOKED_REFRESH_TOKEN.
C5_RevokedNeverValidates ==
    (tokRes.op = "validate" /\ tokRes.token \in revokedDone) =>
        /\ ~tokRes.ok
        /\ RecordsFor(tokRes.token) # {} =>
              /\ tokRes.error = "UnauthorizedError"
              /\ tokRes.code = "REVOKED_REFRESH_TOKEN"

\* A revoked token whose hashed record lies in the future is refused as
\* revoked.
C5_Witness ==
    /\ tokRes.op = "validate"
    /\ tokRes.token \in revokedDone
    /\ tokRes.code = "REVOKED_REFRESH_TOKEN"
    /\ \E r \in refreshTokens :
          r.token = Sha256(tokRes.token) /\ r.expiresAt > now

\* C6: validateRefreshToken checks existence, then revocation, then expiry,
\* and stops at the first violation: no record gives INVALID_REFRESH_TOKEN, a
\* revoked record gives REVOKED_REFRESH_TOKEN even when it is also expired, a
\* non-revoked record past its expiresAt gives EXPIRED_REFRESH_TOKEN, and a
\* success returns the userId of a found, non-revoked record that is not past
\* its expiresAt.
C6_ValidationOrder ==
    tokRes.op = "validate" =>
        LET recs == RecordsFor(tokRes.token)
        IN /\ recs = {} =>
                ~tokRes.ok /\ tokRes.code = "INVALID_REFRESH_TOKEN"
           /\ \A r \in recs :
                /\ r.revoked =>
                      ~tokRes.ok /\ tokRes.code = "REVOKED_REFRESH_TOKEN"
                /\ (~r.revoked /\ r.expiresAt < now) =>
                      ~tokRes.ok /\ tokRes.code = "EXPIRED_REFRESH_TOKEN"
                /\ (~r.revoked /\ r.expiresAt > now) =>
                      tokRes.ok /\ tokRes.userId = r.userId
           /\ tokRes.ok =>
                \E r \in recs :
                    ~r.revoked /\ ~(r.expiresAt < now) /\ tokRes.userId = r.userId

\* A record that is both revoked and expired is refused as revoked.
C6_Witness ==
    /\ tokRes.op = "validate"
    /\ tokRes.code = "REVOKED_REFRESH_TOKEN"
    /\ \E r \in RecordsFor(tokRes.token) : r.revoked /\ r.expiresAt < now
NextKey ==
    \/ \E u \in Users, name \in Names, h \in Heads, t \in Tails :
          createClient(u, name, h, t)
    \/ \E apiKey \in PresentedKeys : authenticateApiKey(apiKey)
    \/ \E id \in 1..MaxClients, u \in Users : deleteClient(id, u)
    \/ RespondKey

SpecKey == Init /\ [][NextKey]_vars

NextAuth ==
    \/ \E u \in Users, name \in Names, h \in Heads, t \in Tails :
          createClient(u, name, h, t)
    \/ RespondKey
    \/ \E authorization \in AuthorizationHeaders, xApiKey \in PresentedKeys :
          HandleRequest(authorization, xApiKey)
    \/ RespondAuth

\* Requests arrive at second 1, when the tokens expiring at 1 are no longer
\* valid and those expiring at MaxTime still are.
InitAuth ==
    /\ now = 1
    /\ redisStore = <<>>
    /\ storeUp = TRUE
    /\ rl = [p \in Procs |-> Idle]
    /\ issued = [c \in ClientIds |-> [m |-> 0, d |-> 0]]
    /\ everDown = FALSE
    /\ calls = 0
    /\ refreshTokens = {}
    /\ tokRes = NoOp
    /\ revokedDone = {}
    /\ apiClients = {}
    /\ issuedKeys = {}
    /\ keyRes = NoKeyOp
    /\ failSeen = {}
    /\ req = NoRequest
    /\ InitRest

SpecAuth == InitAuth /\ [][NextAuth]_vars

\* The record created together with issued key k is in the table.
Stored(k) == \E c \in apiClients : c.id = k.id

\* Two issued keys with the same first 16 characters.
SharePrefix(k, j) ==
    /\ k.apiKey.literal = j.apiKey.literal
    /\ k.apiKey.head = j.apiKey.head

\* C7: when two stored credentials have keys with the same 16-character
\* lookup prefix, authenticateApiKey called with either full key returns the
\* clientId and userId of the record created for that key, never the other
\* record's, in whatever order the repository returned the candidates.
C7_NoCrossMatch ==
    keyRes.op = "authenticate" =>
        \A k, j \in issuedKeys :
            (/\ k # j
             /\ Stored(k) /\ Stored(j)
             /\ SharePrefix(k, j)
             /\ keyRes.apiKey = k.apiKey) =>
                /\ keyRes.ok
                /\ keyRes.clientId = k.id
                /\ keyRes.userId = k.userId

\* A key authenticated to its own record although the repository returned
\* the other record with the same prefix, of another user, first.
C7_Witness ==
    /\ keyRes.op = "authenticate"
    /\ keyRes.ok
    /\ Len(keyRes.clients) = 2
    /\ \E k, j \in issuedKeys :
          /\ k # j /\ Stored(k) /\ Stored(j) /\ SharePrefix(k, j)
          /\ k.userId # j.userId
          /\ keyRes.apiKey = k.apiKey
          /\ keyRes.clients[1].id = j.id
          /\ keyRes.clientId = k.id

\* C8: for presented keys that start with the literal prefix, the failure of
\* authenticateApiKey is the same error type, message 'Invalid API key' and
\* code INVALID_API_KEY whether no record has the key's lookup prefix or
\* records have it and none matches: failures observed in the two cases
\* cannot be told apart.
C8_UniformFailure ==
    /\ \A f \in failSeen :
          f.seen = [error |-> "UnauthorizedError", message |-> "Invalid API key",
                    code |-> "INVALID_API_KEY"]
    /\ \A f, g \in failSeen : f.seen = g.seen

\* Both cases have been observed, the latest just now.
C8_Witness ==
    /\ keyRes.op = "authenticate"
    /\ ~keyRes.ok
    /\ Len(keyRes.clients) > 0
    /\ \E f, g \in failSeen : f.registered /\ ~g.registered

\* The presented bearer token is one jwtVerify accepts at the current time.
BearerVerifies(request) ==
    /\ request.authorization.scheme = "Bearer "
    /\ request.authorization.token.sig = "secret"
    /\ request.authorization.token.exp > now

\* C9: in authenticateOptional, a request with an Authorization: Bearer
\* header whose token verifies ends authenticated as the token's user: the
\* API-key path is not attempted, whatever X-API-Key header accompanies it,
\* and request.client is not set.
C9_BearerFirst ==
    (req.pc = "done" /\ BearerVerifies(req.request)) =>
        /\ req.request.thrown = "none"
        /\ req.request.user = [userId |-> req.request.authorization.token.sub]
        /\ req.request.client = NoClient
        /\ req.request.attempted = <<"jwt">>

\* A verified bearer token together with a stored, valid API key of another
\* user.
C9_Witness ==
    /\ req.pc = "done"
    /\ BearerVerifies(req.request)
    /\ req.request.user # NoUser
    /\ \E k \in issuedKeys :
          /\ Stored(k)
          /\ k.apiKey = req.request.xApiKey
          /\ k.userId # req.request.authorization.token.sub

\* The identities authenticateApiKey may return for the key, over the orders
\* in which the candidates may come back.
Accepted(apiKey) ==
    { [clientId |-> AuthenticateApiKey(apiKey, o).clientId,
       userId |-> AuthenticateApiKey(apiKey, o).userId] :
        o \in { x \in Orders(findClientByApiKeyPrefix(LookupPrefix(apiKey))) :
                  AuthenticateApiKey(apiKey, x).ok } }

\* C10: in authenticateOptional, when the bearer header is absent or its
\* token fails verification and the X-API-Key is one authenticateApiKey
\* accepts, the request ends authenticated as the client, carrying the
\* matched record's clientId and userId; a failed bearer attempt does not
\* prevent the API-key attempt.
C10_ApiKeyFallback ==
    (/\ req.pc = "done"
     /\ ~BearerVerifies(req.request)
     /\ Accepted(req.request.xApiKey) # {}) =>
        /\ req.request.thrown = "none"
        /\ req.request.client \in Accepted(req.request.xApiKey)
        /\ req.request.client.clientId # NoClient.clientId
        /\ req.request.client.userId # NoClient.userId
        /\ req.request.user = NoUser

\* A bearer token that failed verification, then an accepted API key.
C10_Witness ==
    /\ req.pc = "done"
    /\ req.request.authorization.scheme = "Bearer "
    /\ ~BearerVerifies(req.request)
    /\ req.request.attempted = <<"jwt", "apiKey">>
    /\ req.request.client # NoClient
    /\ \E k \in issuedKeys :
          /\ k.apiKey = req.request.xApiKey
          /\ req.request.client = [clientId |-> k.id, userId |-> k.userId]

GateKey(id) ==
    IF id = 1 THEN Key(ApiKeyLiteral, "0a", "c", "")
    ELSE IF id = 2 THEN Key(ApiKeyLiteral, "0a", "d", "")
    ELSE Key(ApiKeyLiteral, "0b", "c", "")

GateOwner(id) == IF id = 3 THEN "u2" ELSE "u1"

GateClients == 1..3

Bearer(sub, sig) ==
    [scheme |-> "Bearer ", token |-> [sub |-> sub, exp |-> MaxTime, sig |-> sig]]

NoAuthorization == [scheme |-> "none", token |-> NoToken]

\* The credentials of the requests: each client's key alone, a bearer token
\* alone or with a key, no credentials, and a forged token with a key that
\* matches no stored hash.
GateRequests ==
    { <<NoAuthorization, GateKey(id)>> : id \in GateClients }
        \cup { <<Bearer("u1", "secret"), EmptyKey>>,
               <<Bearer("u1", "secret"), GateKey(1)>>,
               <<NoAuthorization, EmptyKey>>,
               <<Bearer("u1", "forged"), Key(ApiKeyLiteral, "0a", "e", "")>> }

InitGate ==
    /\ now = 1
    /\ redisStore = <<>>
    /\ storeUp = TRUE
    /\ rl = [p \in Procs |-> Idle]
    /\ issued = [c \in ClientIds |-> [m |-> 0, d |-> 0]]
    /\ everDown = FALSE
    /\ calls = 0
    /\ refreshTokens = {}
    /\ tokRes = NoOp
    /\ revokedDone = {}
    /\ apiClients = { ClientRecord(id, GateOwner(id), GateKey(id)) : id \in GateClients }
    /\ issuedKeys = { [id |-> id, userId |-> GateOwner(id), apiKey |-> GateKey(id)] :
                        id \in GateClients }
    /\ keyRes = NoKeyOp
    /\ failSeen = {}
    /\ req = NoRequest
    /\ subscriptions = { Subscription("u2", "PRO") }
    /\ planCache = [u \in Users |-> NoEntry]
    /\ plan = [p \in Procs |-> IdlePlan]
    /\ heldUntil = [u \in Users |-> [l \in PlanLimitsSet |->
                       IF u = "u2" /\ l = PLAN_CONFIG["FREE"] THEN 0 ELSE NeverHeld]]
    /\ usageRes = NoUsage
    /\ gate = NoGate
    /\ charged = [k \in GatePrincipals |-> 0]
    /\ guard = [p \in Procs |-> NoGuard]
    /\ guardHist = [ip \in Ips |-> NoWindow]
    /\ users = {}
    /\ reg = [p \in Procs |-> NoRegister]

NextGate ==
    \/ \E cred \in GateRequests : GateArrive(cred[1], cred[2])
    \/ GateAuthenticate
    \/ GateResolveLimits
    \/ GatePlanStep
    \/ GatePlanThrows
    \/ GateCheckRateLimit
    \/ GateController
    \/ GateReply

SpecGate == InitGate /\ [][NextGate]_vars

\* The request at the gate carries no credential that verifies: no bearer
\* token jwtVerify accepts and no API key authenticateApiKey accepts.
InvalidCredentials ==
    /\ gate.pc # "none"
    /\ ~BearerVerifies(gate.request)
    /\ Accepted(gate.request.xApiKey) = {}

\* C12: a request to a protected route whose authentication is rejected
\* leaves every rate counter and every policy-cache entry as they were:
\* getPlanLimitsForUser and checkRateLimit are not invoked for it, and it is
\* answered with the authentication error.
C12_RejectedConsumesNothing ==
    /\ [](InvalidCredentials =>
            /\ \A i \in 1..Len(gate.stages) :
                  gate.stages[i] = "authenticateOptional"
            /\ gate.pc \in {"onRequest", "errorHandler"}
            /\ gate.pc = "errorHandler" =>
                  gate.request.thrown = "AUTHENTICATION_REQUIRED")
    /\ [][(InvalidCredentials \/ InvalidCredentials') =>
            /\ redisStore' = redisStore
            /\ planCache' = planCache
            /\ plan' = plan
            /\ charged' = charged]_vars

\* A request without valid credentials was rejected while counters of
\* earlier requests exist.
C12_Witness ==
    /\ InvalidCredentials
    /\ gate.pc = "errorHandler"
    /\ gate.request.thrown = "AUTHENTICATION_REQUIRED"
    /\ gate.stages = <<"authenticateOptional">>
    /\ DOMAIN redisStore # {}
    /\ \E u \in Users : planCache[u] # NoEntry

\* C13: at a protected route the controller runs only after
\* authenticateOptional has succeeded and, after it, checkRateLimit has
\* returned without a denial; a request the rate limiter denies never
\* reaches the controller.
C13_ControllerAfterGate ==
    /\ (\E i \in 1..Len(gate.stages) : gate.stages[i] = "controller") =>
          /\ gate.stages = <<"authenticateOptional", "getPlanLimitsForUser",
                             "checkRateLimit", "controller">>
          /\ gate.request.thrown = "none"
          /\ gate.outcome = "Allowed"
    /\ gate.outcome \in {"RATE_LIMIT_MINUTE", "RATE_LIMIT_DAY"} =>
          /\ gate.pc = "errorHandler"
          /\ \A i \in 1..Len(gate.stages) : gate.stages[i] # "controller"

\* A request denied for the minute limit stopped before the controller.
C13_Witness ==
    /\ gate.pc = "errorHandler"
    /\ gate.outcome = "RATE_LIMIT_MINUTE"
    /\ gate.stages = <<"authenticateOptional", "getPlanLimitsForUser",
                       "checkRateLimit">>

\* The issued key the request at the gate presents, if any.
PresentedIssued == {k \in issuedKeys : Stored(k) /\ k.apiKey = gate.request.xApiKey}

\* The minute counter the store holds for a rate-limit key, 0 without one.
MinuteCounter(key) ==
    LET k == <<key, <<getDate(now), getHours(now), getMinutes(now)>>>>
    IN IF k \in DOMAIN redisStore THEN redisStore[k].count ELSE 0

\* C14: the gate's rate-limit key is the clientId for a request
\* authenticated by API key and the userId otherwise, and the limits are those
\* of the owning user; each key has its own counters, so that a request is
\* denied only when the requests counted under its own key exceed the limit,
\* whatever other clients of the same user or the user's bearer requests
\* have consumed.
C14_PartitionPerClient ==
    /\ gate.rateLimitKey # "none" =>
          /\ BearerVerifies(gate.request) =>
                /\ gate.rateLimitKey = gate.request.authorization.token.sub
                /\ gate.limits = DurableLimits(gate.request.authorization.token.sub)
          /\ ~BearerVerifies(gate.request) =>
                \E k \in PresentedIssued :
                    /\ gate.rateLimitKey = ToString(k.id)
                    /\ gate.limits = DurableLimits(k.userId)
          /\ gate.outcome = "RATE_LIMIT_MINUTE" =>
                charged[gate.rateLimitKey] > gate.limits.requestsPerMinute
          /\ gate.outcome = "RATE_LIMIT_DAY" =>
                charged[gate.rateLimitKey] > gate.limits.requestsPerDay
          /\ gate.outcome = "Allowed" =>
                charged[gate.rateLimitKey] <= gate.limits.requestsPerMinute
    /\ \A key \in GatePrincipals : MinuteCounter(key) = charged[key]

\* With client 1 of user u1 past its minute limit, a request of client 2 of
\* the same user is allowed.
C14_Witness ==
    /\ gate.rateLimitKey = "2"
    /\ gate.outcome = "Allowed"
    /\ charged["1"] > FreeRequestsPerMinute
    /\ GateOwner(1) = GateOwner(2)

(***************************************************************************)
(* Properties of the cached plan limits.  The callers of                   *)
(* getPlanLimitsForUser interleave with plan changes and the passing of    *)
(* time.                                                                   *)
(***************************************************************************)
InitPlan ==
    /\ now = 0
    /\ redisStore = <<>>
    /\ storeUp = TRUE
    /\ rl = [p \in Procs |-> Idle]
    /\ issued = [c \in ClientIds |-> [m |-> 0, d |-> 0]]
    /\ everDown = FALSE
    /\ calls = 0
    /\ refreshTokens = {}
    /\ tokRes = NoOp
    /\ revokedDone = {}
    /\ apiClients = {}
    /\ issuedKeys = {}
    /\ keyRes = NoKeyOp
    /\ failSeen = {}
    /\ req = NoRequest
    /\ InitRest

NextPlan ==
    \/ \E p \in Procs : PlanCacheGet(p, "u1")
    \/ \E p \in Procs : PlanDbRead(p)
    \/ \E p \in Procs : PlanCacheSet(p)
    \/ getUserSubscription("u1")
    \/ \E planType \in PlanType : updateUserPlan("u1", planType)
    \/ TickPlan

SpecPlan == InitPlan /\ [][NextPlan]_vars

\* C15: a call of getPlanLimitsForUser for a user without a subscription
\* row returns the limits of the FREE plan, and no step of
\* getPlanLimitsForUser changes the subscription table: the cache entry is
\* all it writes.
C15_DefaultWithoutRecord ==
    /\ [](\A p \in Procs :
            (plan[p].pc = "done" /\ findSubscription(plan[p].userId) = {})
               => plan[p].limits = getPlanLimits("FREE"))
    /\ [][plan' # plan => subscriptions' = subscriptions]_vars

\* A call for a user without a row has gone through the durable store, has
\* written the cache entry and has returned, and there is still no row.
C15_Witness ==
    \E p \in Procs :
        /\ plan[p].pc = "done"
        /\ findSubscription(plan[p].userId) = {}
        /\ subscriptions = {}
        /\ planCache[plan[p].userId] =
              CacheEntry(JsonStringify(getPlanLimits("FREE")), CacheTtl,
                         plan[p].at)

\* C16: the limits getPlanLimitsForUser returned at time t are those the
\* subscription row stood for (the default when there was none) at some
\* time within the CacheTtl seconds before t.
C16_BoundedStaleness ==
    \A p \in Procs :
        plan[p].pc = "done" =>
            LET u == plan[p].userId
                l == plan[p].limits
            IN \/ DurableLimits(u) = l
               \/ /\ heldUntil[u][l] # NeverHeld
                  /\ heldUntil[u][l] >= plan[p].at - CacheTtl

(***************************************************************************)
(* Properties of getCurrentUsage, called between the calls of              *)
(* checkRateLimit, the failures of the store and the passing of time.      *)
(***************************************************************************)
NextUsage ==
    \/ /\ usageRes = NoUsage
       /\ \/ \E rpm \in MinuteLimits, rpd \in DayLimits :
                IncrementOk("p1", "c1", rpm, rpd)
          \/ ExpireAndCheck("p1")
          \/ Tick
          \/ StoreFails
          \/ StoreRecovers
    \/ \E c \in ClientIds : getCurrentUsage(c)
    \/ RespondUsage

SpecUsage == Init /\ [][NextUsage]_vars

\* The counter the store holds under a key, 0 when the key does not exist.
StoredCount(k) == IF k \in DOMAIN redisStore THEN redisStore[k].count ELSE 0

\* C17: getCurrentUsage never throws; when the reads fail it returns 0 and
\* 0; otherwise it returns, for the current minute and day windows of the
\* client, the counter stored under each key and 0 for a key that does not
\* exist.
C17_UsageBestEffort ==
    usageRes.op = "usage" =>
        /\ usageRes.thrown = "none"
        /\ usageRes.failed =>
              usageRes.minuteCount = 0 /\ usageRes.dayCount = 0
        /\ ~usageRes.failed =>
              /\ usageRes.minuteCount =
                    StoredCount(RateKey(usageRes.clientId, getMinuteWindow(now)))
              /\ usageRes.dayCount =
                    StoredCount(RateKey(usageRes.clientId, getDayWindow(now)))

\* The usage of a client is read in a minute without calls of a day with
\* calls: the minute key does not exist and the day key holds a count; and
\* the store has failed at some time before.
C17_Witness ==
    /\ usageRes.op = "usage"
    /\ ~usageRes.failed
    /\ everDown
    /\ RateKey(usageRes.clientId, getMinuteWindow(now)) \notin DOMAIN redisStore
    /\ usageRes.minuteCount = 0
    /\ usageRes.dayCount > 0

(***************************************************************************)
(* Further properties of the refresh tokens.                               *)
(***************************************************************************)
\* C18: revokeRefreshToken completes without error whatever the token: on
\* an already-revoked token it leaves the record revoked, and on a token
\* without a stored record it changes nothing and still completes.
C18_RevokeTotalIdempotent ==
    tokRes.op = "revoke" =>
        /\ tokRes.ok
        /\ \A r \in RecordsFor(tokRes.token) : r.revoked

\* The legacy record of a presented token: stored under the token itself,
\* with no record stored under its digest.
LegacyRecordOf(token) ==
    IF findRefreshTokenByToken(Sha256(token)) # {} THEN {}
    ELSE findRefreshTokenByToken(token)

\* C19: a record stored under the plaintext token validates when that token
\* is presented and no record is stored under its digest, under the same
\* revoked and expired checks as a hashed record; revokeRefreshToken on that
\* token marks the plaintext record revoked.
C19_LegacyFallback ==
    \A r \in LegacyRecordOf(tokRes.token) :
        /\ tokRes.op = "validate" =>
              /\ r.revoked =>
                    ~tokRes.ok /\ tokRes.code = "REVOKED_REFRESH_TOKEN"
              /\ (~r.revoked /\ r.expiresAt < now) =>
                    ~tokRes.ok /\ tokRes.code = "EXPIRED_REFRESH_TOKEN"
              /\ (~r.revoked /\ ~(r.expiresAt < now)) =>
                    tokRes.ok /\ tokRes.userId = r.userId
        /\ tokRes.op = "revoke" => tokRes.ok /\ r.revoked

\* A legacy record has validated through the fallback, and the same table
\* holds a hashed record of another token.
C19_Witness ==
    /\ tokRes.op = "validate"
    /\ tokRes.ok
    /\ \E r \in LegacyRecordOf(tokRes.token) :
          r.token.sha = 0 /\ tokRes.userId = r.userId
    /\ \E r \in refreshTokens : r.token.sha = 1

(***************************************************************************)
(* Further properties of the API keys.                                     *)
(***************************************************************************)
\* C20: every key createClient returned starts with the literal prefix
\* 'ak_live_'; the record stored for it carries the key's first 16
\* characters as its lookup prefix; and authenticateApiKey called with the
\* key returns the id of that record and the userId that created it, however
\* many clients have been created since.
C20_RoundTrip ==
    /\ \A k \in issuedKeys :
          /\ k.apiKey.literal = "ak_live_"
          /\ \A c \in apiClients :
                c.id = k.id =>
                    /\ c.apiKeyPrefix.literal = k.apiKey.literal
                    /\ c.apiKeyPrefix.head = k.apiKey.head
                    /\ c.userId = k.userId
    /\ (keyRes.op = "create" /\ keyRes.ok) =>
          /\ keyRes.apiKey.literal = "ak_live_"
          /\ \E k \in issuedKeys :
                /\ k.apiKey = keyRes.apiKey
                /\ k.id = keyRes.clientId /\ k.userId = keyRes.userId
    /\ keyRes.op = "authenticate" =>
          \A k \in issuedKeys :
              (Stored(k) /\ keyRes.apiKey = k.apiKey) =>
                  /\ keyRes.ok
                  /\ keyRes.clientId = k.id
                  /\ keyRes.userId = k.userId

\* The first key created authenticates as its own client after every other
\* client the bound allows has been created, by another user among them.
C20_Witness ==
    /\ keyRes.op = "authenticate"
    /\ keyRes.ok
    /\ Cardinality(apiClients) = MaxClients
    /\ \E k, j \in issuedKeys :
          /\ k.id = 1 /\ j.id > 1 /\ j.userId # k.userId
          /\ Stored(k) /\ Stored(j)
          /\ keyRes.apiKey = k.apiKey
          /\ keyRes.clientId = k.id
          /\ keyRes.userId = k.userId

(***************************************************************************)
(* Further properties of the gate.                                         *)
(***************************************************************************)
\* The day counter the store holds for a rate-limit key, 0 without one.
DayCounter(key) ==
    LET k == RateKey(key, getDayWindow(now))
    IN IF k \in DOMAIN redisStore THEN redisStore[k].count ELSE 0

InitGuard ==
    /\ now = 0
    /\ redisStore = <<>>
    /\ storeUp = TRUE
    /\ rl = [p \in Procs |-> Idle]
    /\ issued = [c \in ClientIds |-> [m |-> 0, d |-> 0]]
    /\ everDown = FALSE
    /\ calls = 0
    /\ refreshTokens = {}
    /\ tokRes = NoOp
    /\ revokedDone = {}
    /\ apiClients = {}
    /\ issuedKeys = {}
    /\ keyRes = NoKeyOp
    /\ failSeen = {}
    /\ req = NoRequest
    /\ InitRest

\* One request at a time.
NextGuard ==
    \/ \E ip \in Ips : GuardIncr("p1", ip)
    \/ GuardExpireAndCheck("p1")
    \/ \E outcome \in {"ok", "failed"} : GuardHandler("p1", outcome)
    \/ GuardReply("p1")
    \/ TickGuard

SpecGuard == InitGuard /\ [][NextGuard]_vars

\* C22: of the requests of one IP that arrive within AuthWindow seconds of
\* the request that opened the IP's window, the first AuthLimit pass the
\* guard and each further one is thrown out with TooManyRequestsError and
\* code AUTH_RATE_LIMIT_EXCEEDED, whatever became of the earlier requests in
\* their handlers and whatever other IPs sent.
C22_BruteForceGuard ==
    \A p \in Procs :
        (guard[p].pc \in {"handler", "replied", "rejected"} /\ guard[p].rank > 0) =>
            /\ guard[p].rank <= AuthLimit =>
                  guard[p].pc \in {"handler", "replied"} /\ guard[p].thrown = "none"
            /\ guard[p].rank > AuthLimit =>
                  /\ guard[p].pc = "rejected"
                  /\ guard[p].thrown = "TooManyRequestsError"
                  /\ guard[p].code = "AUTH_RATE_LIMIT_EXCEEDED"

\* The sixth request of an IP's window is thrown out, seconds after the
\* window opened, and another IP has opened its own window in between.
C22_Witness ==
    \E p \in Procs, ip \in Ips :
        /\ guard[p].pc = "rejected"
        /\ guard[p].rank = AuthLimit + 1
        /\ guard[p].at > guard[p].opened
        /\ ip # guard[p].ip
        /\ guardHist[ip].seen > 0
        /\ guardHist[ip].opened > guard[p].opened

(***************************************************************************)
(* Properties of the counter pipelines, command by command.                *)
(***************************************************************************)
\* The last modelled day begins with no counter in the store.
InitPipeline ==
    /\ now = MaxDay * SecondsPerDay + 5
    /\ redisStore = <<>>
    /\ storeUp = TRUE
    /\ rl = [p \in Procs |-> Idle]
    /\ issued = [c \in ClientIds |-> [m |-> 0, d |-> 0]]
    /\ everDown = FALSE
    /\ calls = 0
    /\ refreshTokens = {}
    /\ tokRes = NoOp
    /\ revokedDone = {}
    /\ apiClients = {}
    /\ issuedKeys = {}
    /\ keyRes = NoKeyOp
    /\ failSeen = {}
    /\ req = NoRequest
    /\ InitRest

\* Two callers at once for one client, the store always answering.
NextPipeline ==
    \/ \E p \in Procs, rpm \in MinuteLimits, rpd \in DayLimits :
          IncrementMinute(p, "c1", rpm, rpd)
    \/ \E p \in Procs : IncrementDay(p)
    \/ \E p \in Procs : ExpireAndCheck(p)
    \/ Tick

SpecPipeline == InitPipeline /\ [][NextPipeline]_vars

\* One caller for one client, the store failing and recovering between any
\* two commands.
NextPipelineFaults ==
    \/ \E rpm \in MinuteLimits, rpd \in DayLimits :
          IncrementMinute("p1", "c1", rpm, rpd)
    \/ \E rpm \in MinuteLimits, rpd \in DayLimits, mode \in ExecFailureModes :
          IncrementFails("p1", "c1", rpm, rpd, mode)
    \/ IncrementDay("p1")
    \/ \E mode \in ExecFailureModes : IncrementDayFails("p1", mode)
    \/ ExpireAndCheck("p1")
    \/ \E mode \in ExecFailureModes : ExpireFails("p1", mode)
    \/ Tick
    \/ StoreFails
    \/ StoreRecovers

SpecPipelineFaults == InitPipeline /\ [][NextPipelineFaults]_vars

\* C23: the minute and day increments of one checkRateLimit call are applied
\* as one atomic batch: in every state, also when the store fails part-way,
\* the store has executed both INCRs of a call or neither, so that nobody
\* reads the counters with only one of the two applied.
C23_AtomicBatch ==
    \A p \in Procs : rl[p].applied \in {{}, {"minute", "day"}}

\* The calls that hold the result of their minute INCR and have not returned.
InFlight == {p \in Procs : rl[p].pc \in {"minuteApplied", "incremented"}}

\* C24: with the store answering, concurrent calls for one partition key in
\* one minute window read distinct counts, the n-th INCR reading n, and a call
\* whose day count is within its limit is Allowed exactly when its minute
\* count is within the minute limit L: of N such calls min(N, L) are Allowed
\* and the others are denied with RATE_LIMIT_MINUTE.
C24_ConcurrentCounts ==
    /\ \A p \in Procs :
          rl[p].pc # "idle" => rl[p].minuteCount = rl[p].rankMinute
    /\ \A p, q \in InFlight :
          (/\ p # q
           /\ rl[p].clientId = rl[q].clientId
           /\ getMinuteWindow(rl[p].at) = getMinuteWindow(rl[q].at))
              => rl[p].minuteCount # rl[q].minuteCount
    /\ \A p \in Procs :
          (rl[p].pc = "done" /\ ~JsGreater(rl[p].dayCount, rl[p].rpd)) =>
              /\ rl[p].outcome = "Allowed" <=> rl[p].rankMinute <= rl[p].rpm
              /\ rl[p].outcome # "Allowed" =>
                    rl[p].outcome = "RATE_LIMIT_MINUTE"

\* Two calls of one window overlap; the one that read 2 has already been
\* denied against L = 1 while the one that read 1 has not returned yet.
C24_Witness ==
    \E p, q \in Procs :
        /\ rl[p].pc = "incremented"
        /\ rl[p].minuteCount = 1
        /\ rl[p].rpm = 1
        /\ rl[q].pc = "done"
        /\ rl[q].minuteCount = 2
        /\ rl[q].rpm = 1
        /\ rl[q].outcome = "RATE_LIMIT_MINUTE"
        /\ now = rl[p].at

\* The call p created counter key k: its INCR on k returned 1.
Created(p, k) ==
    \/ /\ k = RateKey(rl[p].clientId, getMinuteWindow(rl[p].at))
       /\ rl[p].minuteCount = 1
    \/ /\ k = RateKey(rl[p].clientId, getDayWindow(rl[p].at))
       /\ rl[p].dayCount = 1

\* A step in which call p runs its expiration pipeline and returns.
Expires(p) == rl[p].pc = "incremented" /\ rl'[p].pc = "done"

ExpirationSteps ==
    \A k \in DOMAIN redisStore :
        /\ (k \in DOMAIN redisStore' /\ redisStore'[k].exp # redisStore[k].exp)
              => /\ redisStore[k].exp = NoExpiry
                 /\ \E p \in Procs : Expires(p) /\ Created(p, k)
        /\ \A p \in Procs :
              (Expires(p) /\ Created(p, k))
                  => (k \in DOMAIN redisStore' /\ redisStore'[k].exp # NoExpiry)

ExpirationPending ==
    \A k \in DOMAIN redisStore :
        redisStore[k].exp = NoExpiry
            => \E p \in Procs : rl[p].pc # "done" /\ Created(p, k)

\* C25: under any interleaving of concurrent calls, the expiration of a
\* counter key is set once in the key's lifetime, by the call whose INCR
\* returned 1: a key without expiration has that call still in progress, the
\* call sets the expiration when it runs its expiration step, and no step
\* changes an expiration that has been set.
C25_ExpirationSetOnce == []ExpirationPending /\ [][ExpirationSteps]_vars

\* Two calls of the current minute have returned, the one that read 1 and
\* one that read 2, and the key carries the expiration.
C25_Witness ==
    LET mk == RateKey("c1", getMinuteWindow(now)) IN
    /\ mk \in DOMAIN redisStore
    /\ redisStore[mk].count = 2
    /\ redisStore[mk].exp # NoExpiry
    /\ \E p, q \in Procs :
          /\ rl[p].pc = "done" /\ rl[p].minuteCount = 1
          /\ rl[q].pc = "done" /\ rl[q].minuteCount = 2

(***************************************************************************)
(* Properties of the counters' expirations.                                *)
(***************************************************************************)
\* The first instant after the window of a counter key: the next minute for
\* a minute window <<day, hour, minute>>, the next midnight for a day window
\* <<day>>.
WindowEnd(window) ==
    IF Len(window) = 1
      THEN (window[1] + 1) * SecondsPerDay
      ELSE window[1] * SecondsPerDay + window[2] * SecondsPerHour
             + (window[3] + 1) * SecondsPerMinute

\* Every second of the first and of the last minute of the last modelled day.
Timestamps ==
    { MaxDay * SecondsPerDay + m * SecondsPerMinute + sec :
        m \in {0, HoursPerDay * MinutesPerHour - 1},
        sec \in 0..(SecondsPerMinute - 1) }

\* One caller for one client over all the modelled days, the store answering.
NextWindows ==
    \/ \E rpm \in MinuteLimits, rpd \in DayLimits :
          IncrementOk("p1", "c1", rpm, rpd)
    \/ ExpireAndCheck("p1")
    \/ Tick

SpecWindows == Init /\ [][NextWindows]_vars

\* C27: for every timestamp the minute TTL (60 - seconds + 1) reaches the
\* next minute and the day TTL (seconds until midnight + 3600) reaches the
\* next midnight; the expiration a call sets on a counter it created never
\* falls before the end of the counter's window, and a counter that calls of
\* the current window have incremented is still in the store.
C27_TtlCoversWindow ==
    /\ \A t \in Timestamps :
          /\ t + MinuteTtl(t) >= WindowEnd(getMinuteWindow(t))
          /\ t + DayTtl(t) >= WindowEnd(getDayWindow(t))
    /\ \A k \in DOMAIN redisStore :
          redisStore[k].exp # NoExpiry => redisStore[k].exp >= WindowEnd(k[2])
    /\ \A c \in ClientIds :
          /\ issued[c].m > 0 =>
                RateKey(c, getMinuteWindow(now)) \in DOMAIN redisStore
          /\ issued[c].d > 0 =>
                RateKey(c, getDayWindow(now)) \in DOMAIN redisStore

\* The counter created at second 5 of a minute is read again at second 59,
\* with its expiration set.
C27_Witness ==
    \E p \in Procs :
        LET mk == RateKey(rl[p].clientId, getMinuteWindow(now)) IN
        /\ rl[p].pc = "incremented"
        /\ rl[p].minuteCount = 2
        /\ getSeconds(now) = SecondsPerMinute - 1
        /\ mk \in DOMAIN redisStore
        /\ redisStore[mk].exp = WindowEnd(getMinuteWindow(now)) + MinuteBuffer

\* The fixed buffer of a counter key: 1 s for a minute window, 3600 s for a
\* day window.
WindowBuffer(window) == IF Len(window) = 1 THEN DayBuffer ELSE MinuteBuffer

\* C26: whenever no checkRateLimit call is in progress, every counter key in
\* the store carries an expiration, and it falls no later than the end of the
\* key's window plus the fixed buffer, also in executions in which a store
\* call failed between the increments and the expiration.
C26_BoundedLifetime ==
    (\A p \in Procs : rl[p].pc \in {"idle", "done"}) =>
        \A k \in DOMAIN redisStore :
            /\ redisStore[k].exp # NoExpiry
            /\ redisStore[k].exp <= WindowEnd(k[2]) + WindowBuffer(k[2])

(***************************************************************************)
(* Further properties of the refresh tokens.                               *)
(***************************************************************************)
\* The records stored hashed, and the digests they are stored under.
HashedRecords == {r \in refreshTokens : r.token.sha = 1}
StoredDigests == {r.token : r \in HashedRecords}

\* C28: the legacy fallback does not weaken tokens stored hashed: a
\* validation resolves to a record stored under a digest h only for a token x
\* with SHA-256(x) = h; presenting the stored digest h itself is rejected
\* with INVALID_REFRESH_TOKEN, and revokeRefreshToken(h) revokes nothing.
C28_FallbackDoesNotWeaken ==
    /\ (tokRes.op = "validate" /\ tokRes.code # "INVALID_REFRESH_TOKEN")
          => \A r \in ValidateLookup(tokRes.token) \cap HashedRecords :
                r.token = Sha256(tokRes.token)
    /\ (tokRes.op = "validate" /\ tokRes.token \in StoredDigests)
          => (~tokRes.ok /\ tokRes.code = "INVALID_REFRESH_TOKEN")
    /\ revokedDone \cap StoredDigests = {}

\* C29: a found, non-revoked record validates exactly when expiresAt > now;
\* at the instant now = expiresAt the validation fails with
\* EXPIRED_REFRESH_TOKEN.
C29_StrictExpiry ==
    tokRes.op = "validate" =>
        \A r \in ValidateLookup(tokRes.token) :
            ~r.revoked =>
                /\ tokRes.ok <=> r.expiresAt > now
                /\ r.expiresAt = now =>
                      tokRes.code = "EXPIRED_REFRESH_TOKEN"

\* A step in which a service operation (validate, save or revoke) completes.
ServiceStep(op) == tokRes = NoOp /\ tokRes'.op = op

\* The record r with its revoked flag set.
Revoked(r) == [r EXCEPT !.revoked = TRUE]

RecordFrame ==
    /\ ServiceStep("validate") => refreshTokens' = refreshTokens
    /\ ServiceStep("revoke") =>
          \/ refreshTokens' = refreshTokens
          \/ \E r \in RecordsFor(tokRes'.token) :
                /\ ~r.revoked
                /\ refreshTokens' = (refreshTokens \ {r}) \cup {Revoked(r)}
    /\ tokRes' # tokRes =>
          \A r \in refreshTokens : r \in refreshTokens' \/ Revoked(r) \in refreshTokens'

\* C30: refresh-token records are mutated only by revocation: a validation
\* (all that POST /auth/refresh does to the table) leaves every record as it
\* is, a revocation changes nothing but the revoked flag of the one matched
\* record, from false to true, and no service operation deletes a record or
\* sets revoked back to false.
C30_MutatedOnlyByRevocation == [][RecordFrame]_vars

\* A revocation has completed: the matched record is revoked and another
\* record of the table is not.
C30_Witness ==
    /\ tokRes.op = "revoke"
    /\ tokRes.ok
    /\ \E r \in RecordsFor(tokRes.token) : r.revoked
    /\ \E r \in refreshTokens : ~r.revoked /\ r \notin RecordsFor(tokRes.token)

(***************************************************************************)
(* The plan limits with the cache out of reach.                            *)
(***************************************************************************)
\* The entries a cache may hold when the store stops answering: none, or a
\* plan's limits written at second 0.
StaleEntries ==
    {NoEntry} \cup
    { CacheEntry(JsonStringify(PLAN_CONFIG[planType]), CacheTtl, 0) :
        planType \in PlanType }

InitNoCache ==
    /\ now = 0
    /\ redisStore = <<>>
    /\ storeUp = FALSE
    /\ rl = [p \in Procs |-> Idle]
    /\ issued = [c \in ClientIds |-> [m |-> 0, d |-> 0]]
    /\ everDown = TRUE
    /\ calls = 0
    /\ refreshTokens = {}
    /\ tokRes = NoOp
    /\ revokedDone = {}
    /\ apiClients = {}
    /\ issuedKeys = {}
    /\ keyRes = NoKeyOp
    /\ failSeen = {}
    /\ req = NoRequest
    /\ subscriptions = {}
    /\ \E entry \in StaleEntries :
          planCache = [u \in Users |-> IF u = "u1" THEN entry ELSE NoEntry]
    /\ plan = [p \in Procs |-> IdlePlan]
    /\ heldUntil = [u \in Users |-> [l \in PlanLimitsSet |-> NeverHeld]]
    /\ usageRes = NoUsage
    /\ gate = NoGate
    /\ charged = [k \in GatePrincipals |-> 0]
    /\ guard = [p \in Procs |-> NoGuard]
    /\ guardHist = [ip \in Ips |-> NoWindow]
    /\ users = {}
    /\ reg = [p \in Procs |-> NoRegister]

\* Every cache read and every cache write fails; the database answers or not.
NextNoCache ==
    \/ \E p \in Procs : PlanCacheGet(p, "u1")
    \/ \E p \in Procs : PlanDbRead(p)
    \/ \E p \in Procs : PlanDbFails(p)
    \/ \E p \in Procs : PlanCacheSet(p)
    \/ getUserSubscription("u1")
    \/ \E planType \in PlanType : updateUserPlan("u1", planType)
    \/ TickPlan

SpecNoCache == InitNoCache /\ [][NextNoCache]_vars

\* Each step of a call of the cached getPlanLimitsForUser is the step the
\* cache-less one takes.
AsUncached(p) ==
    LET uncached(dbAnswers) ==
            getPlanLimitsForUserUncached(plan[p].userId, dbAnswers)
    IN /\ (plan[p].pc \in {"idle", "done"} /\ plan'[p] # plan[p])
             => plan'[p].pc = "db"
       /\ (plan[p].pc = "db" /\ plan'[p] # plan[p]) =>
             \/ /\ plan'[p].pc = "set"
                /\ ~uncached(TRUE).thrown
                /\ plan'[p].limits = uncached(TRUE).limits
             \/ /\ plan'[p].pc = "failed"
                /\ uncached(FALSE).thrown
       /\ (plan[p].pc = "set" /\ plan'[p] # plan[p]) =>
             /\ plan'[p].pc = "done"
             /\ plan'[p].limits = plan[p].limits

\* C31: with every cache read and cache write failing, the cached
\* getPlanLimitsForUser returns for every user and every state of the
\* subscription table what the cache-less getPlanLimitsForUser returns (the
\* row's limits, or the FREE limits when there is no row), and a failed cache
\* write never turns the resolved limits into an error.
C31_CacheNotNeeded == [][\A p \in Procs : AsUncached(p)]_vars

\* A call has returned the PRO limits of the user's row while the cache,
\* out of reach, still holds the FREE limits for that user.
C31_Witness ==
    \E p \in Procs :
        /\ plan[p].pc = "done"
        /\ plan[p].limits = PLAN_CONFIG["PRO"]
        /\ planCache[plan[p].userId] # NoEntry
        /\ JsonParse(planCache[plan[p].userId].value) = PLAN_CONFIG["FREE"]

(***************************************************************************)
(* The gate when the subscription read fails.                              *)
(***************************************************************************)
\* The stages the request in the gate has gone through.
Staged(stage) == \E i \in DOMAIN gate.stages : gate.stages[i] = stage

HardErrorState ==
    /\ plan["p1"].pc = "failed" => plan["p1"].limits = NoLimits
    /\ gate.error = PrismaError =>
          /\ gate.pc = "errorHandler"
          /\ gate.reply.status = 500
          /\ gate.limits = NoLimits
          /\ gate.outcome = "none"
          /\ ~Staged("checkRateLimit")
          /\ ~Staged("controller")

HardErrorStep ==
    /\ (plan["p1"].pc = "db" /\ plan'["p1"].pc = "set")
          => plan'["p1"].limits = PlanDbLimits(plan["p1"].userId)
    /\ (plan["p1"].pc = "failed" \/ gate.error = PrismaError)
          => (redisStore' = redisStore /\ charged' = charged)

\* C32: when the cache gives nothing and the subscription read fails with
\* an error other than NotFoundError, getPlanLimitsForUser throws it: no
\* limits are returned for it (the defaults are returned only for a user
\* without a row), the gate does not call checkRateLimit, no counter is
\* incremented and the controller does not run.
C32_HardErrorOnReadFailure == []HardErrorState /\ [][HardErrorStep]_vars

\* The read of a PRO user's row has failed and the request is answered 500.
C32_Witness ==
    /\ gate.pc = "errorHandler"
    /\ gate.error = PrismaError
    /\ ResolveIdentity(gate.request).userId = "u2"
    /\ Staged("getPlanLimitsForUser")

(***************************************************************************)
(* Properties of the brute-force guard, the store failing and recovering.  *)
(***************************************************************************)
\* One request at a time from one IP.
NextGuardFaults ==
    \/ GuardIncr("p1", "ip1")
    \/ GuardIncrFails("p1", "ip1")
    \/ GuardExpireAndCheck("p1")
    \/ GuardExpireFails("p1")
    \/ \E outcome \in {"ok", "failed"} : GuardHandler("p1", outcome)
    \/ GuardReply("p1")
    \/ TickGuard
    \/ StoreFails
    \/ StoreRecovers

SpecGuardFaults == InitGuard /\ [][NextGuardFaults]_vars

\* C33: the block is temporary: in every execution, also when the store
\* fails between the guard's INCR and its EXPIRE, the counter of an IP is
\* gone 60 seconds after the request that created it (the request running
\* its EXPIRE within MaxSkew seconds of its INCR), so that an IP that stops
\* sending requests passes the guard again; no later request extends the
\* counter's life.
C33_BlockIsTemporary ==
    \A ip \in Ips :
        AuthKey(ip) \in DOMAIN redisStore =>
            /\ guardHist[ip].opened # NeverHeld
            /\ now < guardHist[ip].opened + AuthWindow + MaxSkew

\* C34: a request for which a store call of the guard failed goes on to the
\* register or login handler, and the guard throws nothing but
\* TooManyRequestsError.
C34_GuardFailsOpen ==
    \A p \in Procs :
        /\ guard[p].thrown \in {"none", "TooManyRequestsError"}
        /\ guard[p].failedAt # "none" =>
              /\ guard[p].pc \in {"handler", "replied"}
              /\ guard[p].thrown = "none"

\* The handler has run for a request whose EXPIRE failed, and for one whose
\* INCR failed while the counter of its IP existed.
C34_Witness ==
    \E p \in Procs :
        /\ guard[p].pc = "replied"
        /\ guard[p].handled = "ok"
        /\ \/ guard[p].failedAt = "expire"
           \/ /\ guard[p].failedAt = "incr"
              /\ AuthKey(guard[p].ip) \in DOMAIN redisStore
              /\ redisStore[AuthKey(guard[p].ip)].count > AuthLimit

(***************************************************************************)
(* Further properties of the rate limiter.                                 *)
(***************************************************************************)
CountIn(store, k) == IF k \in DOMAIN store THEN store[k].count ELSE 0

\* Call p runs its increments in this step; call p returns in this step.
Increments(p) == rl[p].pc \in {"idle", "done"} /\ rl'[p].pc = "incremented"
Returns(p) == rl[p].pc = "incremented" /\ rl'[p].pc = "done"

ConsumesOne ==
    \A p \in Procs :
        /\ Increments(p) =>
              LET mk == RateKey(rl'[p].clientId, getMinuteWindow(rl'[p].at))
                  dk == RateKey(rl'[p].clientId, getDayWindow(rl'[p].at))
              IN /\ CountIn(redisStore', mk) = CountIn(redisStore, mk) + 1
                 /\ CountIn(redisStore', dk) = CountIn(redisStore, dk) + 1
        /\ Returns(p) =>
              \A k \in DOMAIN redisStore :
                  CountIn(redisStore', k) = CountIn(redisStore, k)

CountsAreCalls ==
    \A c \in ClientIds :
        /\ CountIn(redisStore, RateKey(c, getMinuteWindow(now))) = issued[c].m
        /\ CountIn(redisStore, RateKey(c, getDayWindow(now))) = issued[c].d

\* C35: with the store answering, every call adds exactly 1 to the minute
\* counter and 1 to the day counter of its key, whether it ends Allowed or
\* denied, and returning changes no counter: after k calls in a day window
\* the day counter is k, the calls denied for the minute limit included.
C35_EveryCallConsumes == []CountsAreCalls /\ [][ConsumesOne]_vars

\* The second call of a minute has been denied for the minute limit and the
\* day counter stands at 2.
C35_Witness ==
    \E p \in Finished, c \in ClientIds :
        /\ rl[p].outcome = "RATE_LIMIT_MINUTE"
        /\ rl[p].dayCount = 2
        /\ issued[c].d = 2
        /\ CountIn(redisStore, RateKey(c, getDayWindow(now))) = 2
        /\ rl[p].rpd > 2

\* The call read a count above its limit from a successful increment step.
OverItsLimit(call) ==
    /\ call.failedAt # "increment"
    /\ JsGreater(call.minuteCount, call.rpm) \/ JsGreater(call.dayCount, call.rpd)

RefreshTokenAsBearer(token) ==
    [scheme |-> "Bearer ",
     token |-> [sub |-> token.sub, exp |-> token.iat + RefreshLifetime,
                sig |-> "secret"]]

\* The token strings jwt.sign can have produced.
SignedTokens == {token \in PresentedTokens : token.sha = 0}

\* Sign-ins, refreshes, logouts and requests to a protected route that
\* present a refresh token string in the Authorization header, one at a time.
NextSession ==
    \/ \E u \in Users : req = NoRequest /\ saveRefreshToken(u)
    \/ \E token \in SignedTokens : req = NoRequest /\ revokeRefreshToken(token)
    \/ \E token \in SignedTokens : req = NoRequest /\ validateRefreshToken(token)
    \/ Respond
    \/ req = NoRequest /\ TickToken
    \/ \E token \in SignedTokens :
          tokRes = NoOp /\ HandleRequest(RefreshTokenAsBearer(token), EmptyKey)
    \/ RespondAuth

SpecSession == InitToken /\ [][NextSession]_vars

\* The token was issued as a refresh token by a sign-in of the run: the
\* table holds the record of its digest.
IssuedAsRefresh(token) ==
    \E r \in refreshTokens : r.token = Sha256(token) /\ r.userId = token.sub

\* C37: a token issued as a refresh token at login or registration is never
\* accepted by authenticateJWT on a protected route, before or after its
\* revocation by logout.
C37_RefreshTokenIsNoBearer ==
    \A token \in SignedTokens :
        (/\ IssuedAsRefresh(token)
         /\ req # NoRequest
         /\ req.request.authorization = RefreshTokenAsBearer(token))
            => req.request.user = NoUser

(***************************************************************************)
(* The gate never skips the rate check of an authenticated request.        *)
(***************************************************************************)
\* How many times the request in the gate has gone through a stage.
TimesStaged(stage) ==
    Cardinality({i \in DOMAIN gate.stages : gate.stages[i] = stage})

\* A request that authenticateOptional has let through carries a userId,
\* and a request the controller has handled went through checkRateLimit
\* once, under the key resolved for it.
RateCheckedState ==
    /\ (Staged("authenticateOptional") /\ gate.request.thrown = "none") =>
          /\ gate.request.user # NoUser \/ gate.request.client # NoClient
          /\ ResolveIdentity(gate.request).userId \in Users
    /\ Staged("controller") =>
          /\ TimesStaged("checkRateLimit") = 1
          /\ gate.rateLimitKey = ResolveIdentity(gate.request).rateLimitKey
          /\ gate.rateLimitKey \in GatePrincipals

\* The hook rateLimitMiddleware is left with checkRateLimit called, one
\* unit charged to the request's key, or with the error of the plan read;
\* never by the return of line 45.  The controller's step charges nothing.
RateCheckedStep ==
    /\ (CurrentHook = "rateLimitMiddleware" /\ gate'.hook # gate.hook) =>
          \/ /\ gate'.stages = gate.stages \o <<"getPlanLimitsForUser", "checkRateLimit">>
             /\ charged' = [charged EXCEPT
                               ![ResolveIdentity(gate.request).rateLimitKey] = @ + 1]
          \/ gate'.error = PrismaError /\ charged' = charged
    /\ (gate.pc = "onRequest" /\ gate'.pc = "handled") =>
          /\ TimesStaged("checkRateLimit") = 1
          /\ charged' = charged

\* C38: whenever authenticateOptional succeeds the request carries a
\* resolved userId, from request.user or from request.client, so
\* rateLimitMiddleware never takes its early return: every request that
\* reaches a protected controller has had checkRateLimit called for it
\* exactly once before.
C38_NeverUnchecked == []RateCheckedState /\ [][RateCheckedStep]_vars

\* A request authenticated by its bearer token alone has reached the
\* controller, charged to the user's own counter.
C38_Witness ==
    /\ gate.pc = "handled"
    /\ gate.request.user = [userId |-> "u1"]
    /\ gate.request.client = NoClient
    /\ gate.rateLimitKey = "u1"
    /\ charged["u1"] >= 1
    /\ TimesStaged("checkRateLimit") = 1

(***************************************************************************)
(* Registration as one unit.                                               *)
(***************************************************************************)
NextRegister ==
    \/ \E p \in Procs, email \in Emails : registerFind(p, email)
    \/ \E p \in Procs : registerCreateUser(p)
    \/ \E p \in Procs : registerCreateUserFails(p)
    \/ \E p \in Procs : registerCreateSubscription(p)
    \/ \E p \in Procs : registerCreateSubscriptionFails(p)
    \/ \E p \in Procs : registerReturn(p)

SpecRegister == Init /\ [][NextRegister]_vars

\* The register call of some caller stands between its two writes for the
\* user.
BeingRegistered(id) == \E p \in Procs : reg[p].pc = "subscribe" /\ reg[p].userId = id

\* C39: register is all-or-nothing.  A register call that has failed has
\* left no user row and no subscription row behind, and every user row not
\* in the middle of its registration has exactly one subscription, the FREE
\* one.
C39_RegisterAllOrNothing ==
    /\ \A p \in Procs :
          (reg[p].pc = "done" /\ reg[p].outcome # "ok") =>
              /\ \A u \in users : u.id # reg[p].userId
              /\ findSubscription(reg[p].userId) = {}
    /\ \A u \in users :
          ~BeingRegistered(u.id) =>
              findSubscription(u.id) = {Subscription(u.id, "FREE")}

====
